---- MODULE Spec2Model ----
(***************************************************************************)
(* Persistent AI memory: the store primitive, the domain stores with their *)
(* duplicate detection, the tool-call telemetry, the coordinator and the   *)
(* request dispatcher.                                                     *)
(*                                                                         *)
(* The repository ships two modules named ai_memory_core:                  *)
(*   llama-ai-memory/src/ai_memory_core.py            (pkg = "llama")      *)
(*   ai-memory-llm-integration/src/ai_memory_core.py  (pkg = "llm")        *)
(* They implement the same store classes differently.  The variable pkg,   *)
(* fixed by Init, says which one a run uses; an operation that only one of *)
(* them defines is taken from that one.                                    *)
(*                                                                         *)
(* The servers hold a coordinator as self.memory_system.  The class the    *)
(* repository keeps, PersistentAIMemorySystem, defines four forwards and   *)
(* none of log_tool_call, search_memories and get_system_health, which the *)
(* servers and LlamaIntegration call; the variable memory_system says      *)
(* whether a run's coordinator is that class or one that has the methods.  *)
(***************************************************************************)
EXTENDS Naturals, Integers, Sequences, FiniteSets, TLC

\* ------------------------------------------------------------------ bounds
\* Rows a domain table (messages, memories, appointments, reminders) may hold.
MaxRows == 2
\* ToolCallRecords the tool-call table may hold, and requests a server takes
\* into a branch of its dispatch table.
MaxCalls == 2

\* Tool calls logged before a usage summary is read.
MaxSummaryCalls == 12
\* Of these, the first calls vary in tool and time; the later ones log one
\* more tool each.
SmallScope == 3

\* ------------------------------------------------------- program constants
\* datetime('now', '-1 hour'): the dedup window of store_message, in minutes.
WindowMinutes == 60
\* date granularity of tool_usage_stats.date, in minutes.
MinutesPerDay == 1440
\* params.get("importance_level", 5) and the stores' importance_level = 5.
DefaultImportance == 5
\* LIMIT 10 of the most-used view of get_tool_usage_summary.
MostUsedLimit == 10
\* get_tool_usage_summary(days = 7).
DefaultSummaryDays == 7

\* params.get("limit", 10) of search_memories.
DefaultSearchLimit == 10
\* params.get("limit", 50) of get_tool_call_history.
DefaultHistoryLimit == 50

\* --------------------------------------------------------------- values
\* Python None and SQL NULL.
NULL == "NULL"

Packages == {"llama", "llm"}

\* The instants the clock takes, in minutes since day 0: the start of day 1,
\* half an hour later, more than an hour after both, and a minute of day 2.
Instants == {1440, 1470, 1540, 2900}

\* str(uuid.uuid4()): a fresh identifier, the n-th one drawn.
uuid4(n) == "u" \o ToString(n)

\* datetime.now().isoformat(): 'YYYY-MM-DDTHH:MM:SS.ffffff', as the text's
\* three parts <<date, separator, time of day>>; the separator is the
\* character code of 'T'.
isoformat(t) == <<t \div MinutesPerDay, 84, t % MinutesPerDay>>

get_current_timestamp(t) == isoformat(t)

\* SQLite's datetime('now', '-1 hour'): 'YYYY-MM-DD HH:MM:SS'; the separator
\* is the character code of ' '.  (The machine's clock is taken to be UTC.)
sqlite_datetime_minus_hour(t) ==
    <<(t - WindowMinutes) \div MinutesPerDay, 32, (t - WindowMinutes) % MinutesPerDay>>

\* Text comparison a >= b of two timestamps, part by part, as SQLite compares
\* the two strings byte by byte.
TextGE(a, b) ==
    \/ a[1] > b[1]
    \/ a[1] = b[1] /\ a[2] > b[2]
    \/ a[1] = b[1] /\ a[2] = b[2] /\ a[3] >= b[3]

\* datetime.now().date().isoformat()
today(t) == t \div MinutesPerDay

\* SQL "a = b": NULL on either side is not a match.
SqlEq(a, b) == a # NULL /\ b # NULL /\ a = b
\* SQL "a IS b": NULL IS NULL matches.
SqlIs(a, b) == a = b

\* Python truthiness of an optional string.
Truthy(s) == s # NULL /\ s # ""
\* Python "a or b"
Or(a, b) == IF Truthy(a) THEN a ELSE b

\* dict.get(key, default)
get(p, k, d) == IF k \in DOMAIN p THEN p[k] ELSE d

\* v is None, whatever the type of the values v may otherwise be.
is_none(v) == ToString(v) = ToString(NULL)

\* Python "if v" of a list or a dict (given as a sequence) or None.
has_items(v) == ~is_none(v) /\ v # <<>>

RECURSIVE JoinStr(_, _)
JoinStr(seq, sep) ==
    IF seq = <<>> THEN ""
    ELSE IF Len(seq) = 1 THEN seq[1]
    ELSE seq[1] \o sep \o JoinStr(Tail(seq), sep)

Quote(s) == "\"" \o s \o "\""

\* json.dumps of a list of strings.
json_dumps_list(l) == "[" \o JoinStr([i \in 1..Len(l) |-> Quote(l[i])], ", ") \o "]"

\* json.dumps(tags) if tags else None
tags_column(tags) == IF has_items(tags) THEN json_dumps_list(tags) ELSE NULL

\* ---------------------------------------------------------------- state
VARIABLES
    memory_system,     \* the coordinator a server holds as self.memory_system
    dispatched,        \* the requests a server has taken into a branch of its
                       \* dispatch table
    pkg,               \* which ai_memory_core the run uses
    now,               \* the clock, in minutes
    nextId,            \* identifiers drawn so far + 1
    messages,          \* conversations.db: table messages, in rowid order
    memories,          \* ai_memories.db: table curated_memories
    appointments,      \* schedule.db: table appointments
    reminders,         \* schedule.db: table reminders
    tool_calls,        \* mcp_tool_calls.db: table tool_calls
    tool_usage_stats,  \* mcp_tool_calls.db: table tool_usage_stats
    last,              \* the last operation: its arguments and what it returned
    tasks              \* the store calls in progress, by writer: each one's
                       \* position and what it has read

vars == <<memory_system, dispatched, pkg, now, nextId, messages, memories, appointments, reminders,
          tool_calls, tool_usage_stats, last, tasks>>

\* ------------------------------------------------------- store primitive
\* The rowids of a table: what a WHERE clause is evaluated on, row by row.
RowIds(table) == 1..Len(table)

\* DatabaseManager.execute_query: the rows the WHERE clause selects, in
\* rowid order.
execute_query(table, where) ==
    LET ids == SelectSeq([i \in RowIds(table) |-> i], LAMBDA i : where[i])
    IN  [j \in 1..Len(ids) |-> table[ids[j]]]

\* The rows of a table, as a set.
Rows(table) == {table[i] : i \in 1..Len(table)}

\* DatabaseManager.execute_update with an INSERT: the row is appended and
\* committed.
execute_update(table, row) == Append(table, row)

\* What a store operation hands back: the table afterwards, the value
\* returned (NULL when it raised), the exception's message (NULL when none)
\* and whether it used the identifier it drew.
Outcome(rows, ret, exc, used) == [rows |-> rows, ret |-> ret, exc |-> exc, used |-> used]

\* A with-block exit that commits whatever the connection holds, also when
\* the block raised.
connection_exit_committing(table, tx, exc) == table \o tx

\* sqlite3.Connection.__exit__ at the end of "with self.get_connection() as
\* conn": the transaction is committed when the block returned and rolled
\* back when it raised; tx holds the rows written and not yet committed.
\* The connection is not closed.
connection_exit(table, tx, exc) == IF exc = NULL THEN table \o tx ELSE table

\* ---------------------------------------------------------- memory store
MemoryRow(id, t, content, memory_type, importance_level, tags, source_conversation_id) ==
    [memory_id |-> id,
     timestamp_created |-> get_current_timestamp(t),
     timestamp_updated |-> get_current_timestamp(t),
     source_conversation_id |-> source_conversation_id,
     memory_type |-> memory_type,
     content |-> content,
     importance_level |-> importance_level,
     tags |-> tags_column(tags)]

\* A create_memory whose duplicate check, on a hit, writes the new
\* importance_level, tags and update time into the row it found.
llama_create_memory_upserting(rows, id, t, content, memory_type, importance_level, tags, source_conversation_id) ==
    LET hit(r) == /\ SqlEq(r.content, content)
                  /\ SqlEq(r.memory_type, memory_type)
                  /\ SqlIs(r.source_conversation_id, source_conversation_id)
        existing == execute_query(rows, [i \in RowIds(rows) |-> LET r == rows[i] IN hit(r)])
    IN  IF existing # <<>>
        THEN Outcome([i \in DOMAIN rows |->
                         IF hit(rows[i])
                         THEN [rows[i] EXCEPT !.importance_level = importance_level,
                                              !.tags = tags_column(tags),
                                              !.timestamp_updated = get_current_timestamp(t)]
                         ELSE rows[i]],
                     existing[1].memory_id, NULL, 0)
        ELSE Outcome(execute_update(rows,
                        MemoryRow(id, t, content, memory_type, importance_level, tags,
                                  source_conversation_id)),
                     id, NULL, 1)

\* llama AIMemoryDatabase.create_memory: the duplicate check
\*   WHERE content = ? AND memory_type = ? AND source_conversation_id IS ?
\* then the INSERT.
llama_create_memory(rows, id, t, content, memory_type, importance_level, tags, source_conversation_id) ==
    LET existing == execute_query(rows,
                        [i \in RowIds(rows) |-> LET r == rows[i] IN
                                   /\ SqlEq(r.content, content)
                                   /\ SqlEq(r.memory_type, memory_type)
                                   /\ SqlIs(r.source_conversation_id, source_conversation_id)])
    IN  IF existing # <<>>
        THEN Outcome(rows, existing[1].memory_id, NULL, 0)
        ELSE Outcome(execute_update(rows,
                        MemoryRow(id, t, content, memory_type, importance_level, tags,
                                  source_conversation_id)),
                     id, NULL, 1)

\* llm AIMemoryDatabase.create_memory: the INSERT alone.
llm_create_memory(rows, id, t, content, memory_type, importance_level, tags, source_conversation_id) ==
    Outcome(execute_update(rows,
                MemoryRow(id, t, content, memory_type, importance_level, tags,
                          source_conversation_id)),
            id, NULL, 1)

\* AIMemoryDatabase.create_memory of the package in use.
db_create_memory(p, rows, id, t, content, memory_type, importance_level, tags, source_conversation_id) ==
    IF p = "llama"
    THEN llama_create_memory(rows, id, t, content, memory_type, importance_level, tags,
                             source_conversation_id)
    ELSE llm_create_memory(rows, id, t, content, memory_type, importance_level, tags,
                           source_conversation_id)

\* -------------------------------------------------------- schedule store
AppointmentRow(id, t, title, scheduled_datetime, description, location, source_conversation_id) ==
    [appointment_id |-> id,
     timestamp_created |-> get_current_timestamp(t),
     scheduled_datetime |-> scheduled_datetime,
     title |-> title,
     description |-> description,
     location |-> location,
     source_conversation_id |-> source_conversation_id]

\* llama ScheduleDatabase.create_appointment: the duplicate check
\*   WHERE title = ? AND scheduled_datetime = ? AND location IS ?
\*     AND source_conversation_id IS ?
\* then the INSERT.
llama_create_appointment(rows, id, t, title, scheduled_datetime, description, location, source_conversation_id) ==
    LET existing == execute_query(rows,
                        [i \in RowIds(rows) |-> LET r == rows[i] IN
                                   /\ SqlEq(r.title, title)
                                   /\ SqlEq(r.scheduled_datetime, scheduled_datetime)
                                   /\ SqlIs(r.location, location)
                                   /\ SqlIs(r.source_conversation_id, source_conversation_id)])
    IN  IF existing # <<>>
        THEN Outcome(rows, existing[1].appointment_id, NULL, 0)
        ELSE Outcome(execute_update(rows,
                        AppointmentRow(id, t, title, scheduled_datetime, description,
                                       location, source_conversation_id)),
                     id, NULL, 1)

\* llm ScheduleDatabase.create_appointment: the INSERT alone.
llm_create_appointment(rows, id, t, title, scheduled_datetime, description, location, source_conversation_id) ==
    Outcome(execute_update(rows,
                AppointmentRow(id, t, title, scheduled_datetime, description, location,
                               source_conversation_id)),
            id, NULL, 1)

db_create_appointment(p, rows, id, t, title, scheduled_datetime, description, location, source_conversation_id) ==
    IF p = "llama"
    THEN llama_create_appointment(rows, id, t, title, scheduled_datetime, description,
                                  location, source_conversation_id)
    ELSE llm_create_appointment(rows, id, t, title, scheduled_datetime, description,
                                location, source_conversation_id)

\* The reminders row of the INSERT; completed takes the column's DEFAULT 0.
ReminderRow(id, t, content, due_datetime, priority_level, source_conversation_id) ==
    [reminder_id |-> id,
     timestamp_created |-> get_current_timestamp(t),
     due_datetime |-> due_datetime,
     content |-> content,
     priority_level |-> priority_level,
     source_conversation_id |-> source_conversation_id,
     completed |-> 0]

\* A create_reminder whose duplicate check also compares priority_level.
llama_create_reminder_by_priority(rows, id, t, content, due_datetime, priority_level, source_conversation_id) ==
    LET existing == execute_query(rows,
                        [i \in RowIds(rows) |-> LET r == rows[i] IN
                                   /\ SqlEq(r.content, content)
                                   /\ SqlEq(r.due_datetime, due_datetime)
                                   /\ r.priority_level = priority_level
                                   /\ SqlIs(r.source_conversation_id, source_conversation_id)])
    IN  IF existing # <<>>
        THEN Outcome(rows, existing[1].reminder_id, NULL, 0)
        ELSE Outcome(execute_update(rows,
                        ReminderRow(id, t, content, due_datetime, priority_level,
                                    source_conversation_id)),
                     id, NULL, 1)

\* llama ScheduleDatabase.create_reminder: the duplicate check
\*   WHERE content = ? AND due_datetime = ? AND source_conversation_id IS ?
\* then the INSERT.
llama_create_reminder(rows, id, t, content, due_datetime, priority_level, source_conversation_id) ==
    LET existing == execute_query(rows,
                        [i \in RowIds(rows) |-> LET r == rows[i] IN
                                   /\ SqlEq(r.content, content)
                                   /\ SqlEq(r.due_datetime, due_datetime)
                                   /\ SqlIs(r.source_conversation_id, source_conversation_id)])
    IN  IF existing # <<>>
        THEN Outcome(rows, existing[1].reminder_id, NULL, 0)
        ELSE Outcome(execute_update(rows,
                        ReminderRow(id, t, content, due_datetime, priority_level,
                                    source_conversation_id)),
                     id, NULL, 1)

\* ScheduleDatabase.create_reminder of the package in use; the llm package's
\* ScheduleDatabase defines none, so the attribute lookup raises.
db_create_reminder(p, rows, id, t, content, due_datetime, priority_level, source_conversation_id) ==
    IF p = "llama"
    THEN llama_create_reminder(rows, id, t, content, due_datetime, priority_level,
                               source_conversation_id)
    ELSE Outcome(rows, NULL,
                 "'ScheduleDatabase' object has no attribute 'create_reminder'", 0)

\* ----------------------------------------------------- conversation store
\* The columns CREATE TABLE messages declares (both packages alike).
messages_columns ==
    {"message_id", "conversation_id", "timestamp", "role", "content", "metadata"}

\* A column of a row, for a WHERE clause.
col(r, name) == r[name]

\* json.dumps(metadata) if metadata else None; a metadata dict is given as
\* the list of its keys (its values are not read by anything modelled).
metadata_column(metadata) ==
    IF has_items(metadata)
    THEN "{" \o JoinStr([i \in 1..Len(metadata) |-> Quote(metadata[i]) \o ": true"], ", ") \o "}"
    ELSE NULL

MessageRow(id, t, conversation_id, role, content, metadata) ==
    [message_id |-> id,
     conversation_id |-> conversation_id,
     timestamp |-> get_current_timestamp(t),
     role |-> role,
     content |-> content,
     metadata |-> metadata_column(metadata)]

\* llama ConversationDatabase.store_message.  n is the number of the first
\* identifier it may draw: message_id, then session_id and conversation_id
\* when the caller gave none.  The duplicate check
\*   WHERE content = ? AND role = ? AND session_id = ?
\*     AND timestamp >= datetime('now', '-1 hour')
\* names the column session_id, which SQLite must find in the table.
llama_store_message(rows, n, t, content, role, session_id, conversation_id, metadata) ==
    LET message_id == uuid4(n)
        checks == Truthy(session_id)
        no_column == checks /\ "session_id" \notin messages_columns
        existing ==
            IF checks /\ ~no_column
            THEN execute_query(rows,
                    [i \in RowIds(rows) |-> LET r == rows[i] IN
                               /\ SqlEq(col(r, "content"), content)
                               /\ SqlEq(col(r, "role"), role)
                               /\ SqlEq(col(r, "session_id"), session_id)
                               /\ TextGE(col(r, "timestamp"), sqlite_datetime_minus_hour(t))])
            ELSE <<>>
        sid == IF Truthy(session_id) THEN session_id ELSE uuid4(n + 1)
        drawn_sid == IF Truthy(session_id) THEN 0 ELSE 1
        cid == IF Truthy(conversation_id) THEN conversation_id ELSE uuid4(n + 1 + drawn_sid)
        drawn_cid == IF Truthy(conversation_id) THEN 0 ELSE 1
    IN  IF no_column
        THEN Outcome(rows, NULL, "no such column: session_id", 0)
        ELSE IF existing # <<>>
        THEN Outcome(rows, [message_id |-> existing[1].message_id, duplicate |-> TRUE], NULL, 0)
        ELSE Outcome(execute_update(rows,
                        MessageRow(message_id, t, cid, role, content, metadata)),
                     [message_id |-> message_id, conversation_id |-> cid,
                      session_id |-> sid, duplicate |-> FALSE],
                     NULL, 1 + drawn_sid + drawn_cid)

\* llm ConversationDatabase.store_message: the INSERT alone, with the
\* conversation_id and session_id the caller gave.
llm_store_message(rows, n, t, content, role, session_id, conversation_id, metadata) ==
    Outcome(execute_update(rows,
                MessageRow(uuid4(n), t, conversation_id, role, content, metadata)),
            [message_id |-> uuid4(n), conversation_id |-> conversation_id,
             session_id |-> session_id],
            NULL, 1)

db_store_message(p, rows, n, t, content, role, session_id, conversation_id, metadata) ==
    IF p = "llama"
    THEN llama_store_message(rows, n, t, content, role, session_id, conversation_id, metadata)
    ELSE llm_store_message(rows, n, t, content, role, session_id, conversation_id, metadata)

\* -------------------------------------------------------- Python values
\* What a coordinator call returns and a response carries: None, a string,
\* a list of strings, or a dict given as the list of its <<key, JSON text of
\* the value>> pairs; and a whole number, which execution_time_ms may be.
PyNone == [none |-> TRUE]
PyNum(n) == [num |-> n]
PyStr(s) == [str |-> s]
PyList(l) == [list |-> l]
PyDict(d) == [dict |-> d]

\* Python truthiness of a value.
py_truthy(v) ==
    IF "none" \in DOMAIN v THEN FALSE
    ELSE IF "num" \in DOMAIN v THEN v.num # 0
    ELSE IF "str" \in DOMAIN v THEN v.str # ""
    ELSE IF "list" \in DOMAIN v THEN v.list # <<>>
    ELSE v.dict # <<>>

\* json.dumps of a value.
json_dumps(v) ==
    IF "none" \in DOMAIN v THEN "null"
    ELSE IF "num" \in DOMAIN v THEN ToString(v.num)
    ELSE IF "str" \in DOMAIN v THEN Quote(v.str)
    ELSE IF "list" \in DOMAIN v THEN json_dumps_list(v.list)
    ELSE "{" \o JoinStr([i \in 1..Len(v.dict) |->
                            Quote(v.dict[i][1]) \o ": " \o v.dict[i][2]], ", ") \o "}"

\* JSON text of an optional string: null or the quoted string.
json_opt(s) == IF s = NULL THEN "null" ELSE Quote(s)

\* The keys a request's parameters may carry, in the order the model
\* serialises them.
ParamKeys ==
    <<"content", "memory_content", "memory_type", "importance_level", "tags", "source_conversation_id",
      "query", "limit", "user_message", "assistant_response", "session_id", "metadata">>

\* json.dumps of a metadata dict, given as the list of its keys: {} for the
\* empty one.
json_dumps_metadata(metadata) ==
    "{" \o JoinStr([i \in 1..Len(metadata) |-> Quote(metadata[i]) \o ": true"], ", ") \o "}"

\* JSON text of one parameter's value: null for None, a number as it is, a
\* list or a dict also when it is empty, a string in quotes.
ParamText(k, v) ==
    IF is_none(v) THEN "null"
    ELSE IF k \in {"importance_level", "limit"} THEN ToString(v)
    ELSE IF k = "tags" THEN json_dumps_list(v)
    ELSE IF k = "metadata" THEN json_dumps_metadata(v)
    ELSE Quote(v)

\* A request's "parameters": a dict, given as the function from its keys to
\* their values, or a value that is no dict (a string, or None as NULL),
\* given as [not_a_dict |-> the value].
is_dict(p) == "not_a_dict" \notin DOMAIN p

\* request.get("parameters") or {}: a missing key gives None, and None, ""
\* and the empty dict are falsy, so each of them gives {}.
parameters_or_empty(request) ==
    LET v == get(request, "parameters", [not_a_dict |-> NULL])
    IN  IF is_dict(v) THEN v
        ELSE IF Truthy(v.not_a_dict) THEN v
        ELSE <<>>

\* json.dumps(parameters)
json_dumps_params(p) ==
    LET present == SelectSeq(ParamKeys, LAMBDA k : k \in DOMAIN p)
    IN  IF ~is_dict(p) THEN Quote(p.not_a_dict)
        ELSE "{" \o JoinStr([i \in 1..Len(present) |->
                           Quote(present[i]) \o ": " \o ParamText(present[i], p[present[i]])],
                       ", ") \o "}"

\* ------------------------------------------------------- tool-call store
\* int(execution_time_ms) if execution_time_ms else None, for an argument
\* that is None or a whole number of milliseconds: None and 0 are falsy and
\* are stored as NULL.
int_or_none(execution_time_ms) ==
    IF is_none(execution_time_ms) THEN NULL
    ELSE IF execution_time_ms = 0 THEN NULL
    ELSE execution_time_ms

\* The values log_tool_call binds to its INSERT.
ToolCallRow(id, t, client_id, tool_name, parameters, result, status, execution_time_ms, error_message) ==
    [call_id |-> id,
     timestamp |-> isoformat(t),
     client_id |-> client_id,
     tool_name |-> tool_name,
     parameters |-> json_dumps_params(parameters),
     result |-> IF py_truthy(result) THEN json_dumps(result) ELSE NULL,
     status |-> status,
     execution_time_ms |-> int_or_none(execution_time_ms),
     error_message |-> error_message]

StatRow(tool_name, date, call_count, success_count, failure_count) ==
    [tool_name |-> tool_name, date |-> date, call_count |-> call_count,
     success_count |-> success_count, failure_count |-> failure_count]

\* SELECT * FROM tool_usage_stats WHERE tool_name = ? AND date = ?
stats_existing(stats, tool_name, date) ==
    execute_query(stats, [i \in RowIds(stats) |-> LET r == stats[i] IN
                             SqlEq(r.tool_name, tool_name) /\ r.date = date])

\* llm MCPToolCallDatabase._update_tool_stats: the row of (tool_name, today)
\* is updated when it exists and inserted otherwise; the counters are chosen
\* by comparing status with 'success' and with 'failure'.
llm_update_tool_stats(stats, tool_name, status, t) ==
    LET s == IF status = "success" THEN 1 ELSE 0
        f == IF status = "failure" THEN 1 ELSE 0
    IN  IF stats_existing(stats, tool_name, today(t)) # <<>>
        THEN Outcome([i \in 1..Len(stats) |->
                        IF SqlEq(stats[i].tool_name, tool_name) /\ stats[i].date = today(t)
                        THEN StatRow(stats[i].tool_name, stats[i].date,
                                     stats[i].call_count + 1,
                                     stats[i].success_count + s,
                                     stats[i].failure_count + f)
                        ELSE stats[i]],
                     NULL, NULL, 0)
        ELSE Outcome(execute_update(stats, StatRow(tool_name, today(t), 1, s, f)),
                     NULL, NULL, 0)

\* llama MCPToolCallDatabase._update_tool_stats, of which the file keeps the
\* two statements: the UPDATE has four placeholders and is given the three
\* values (1 if status == "success" else 0, tool_name, today), which sqlite3
\* refuses; the INSERT counts every status other than "success" a failure.
llama_update_tool_stats(stats, tool_name, status, t) ==
    IF stats_existing(stats, tool_name, today(t)) # <<>>
    THEN Outcome(stats, NULL,
                 "Incorrect number of bindings supplied. The current statement uses 4, and there are 3 supplied.",
                 0)
    ELSE Outcome(execute_update(stats,
                    StatRow(tool_name, today(t), 1,
                            IF status = "success" THEN 1 ELSE 0,
                            IF status = "success" THEN 0 ELSE 1)),
                 NULL, NULL, 0)

update_tool_stats(p, stats, tool_name, status, t) ==
    IF p = "llama"
    THEN llama_update_tool_stats(stats, tool_name, status, t)
    ELSE llm_update_tool_stats(stats, tool_name, status, t)

\* A write of the daily row that stores the counters read by the SELECT,
\* plus one, instead of incrementing the row as it is now.
write_tool_stats_from_read(p, stats, seen, tool_name, status, t) ==
    IF seen = <<>> THEN update_tool_stats(p, stats, tool_name, status, t)
    ELSE Outcome([i \in 1..Len(stats) |->
                    IF stats[i].tool_name = tool_name /\ stats[i].date = today(t)
                    THEN StatRow(tool_name, today(t), seen[1].call_count + 1,
                                 seen[1].success_count + (IF status = "success" THEN 1 ELSE 0),
                                 seen[1].failure_count + (IF status = "failure" THEN 1 ELSE 0))
                    ELSE stats[i]],
                 NULL, NULL, 0)

\* The write of _update_tool_stats once its SELECT has returned seen (<<>>
\* when there was no row): the UPDATE, which increments the row as it is now,
\* when a row was seen; else the INSERT, which the primary key (tool_name,
\* date) refuses when the row has appeared since.
write_tool_stats(p, stats, seen, tool_name, status, t) ==
    IF seen = <<>> /\ stats_existing(stats, tool_name, today(t)) # <<>>
    THEN Outcome(stats, NULL,
                 "UNIQUE constraint failed: tool_usage_stats.tool_name, tool_usage_stats.date",
                 0)
    ELSE update_tool_stats(p, stats, tool_name, status, t)

\* A log_tool_call that keeps one record per tool (INSERT OR REPLACE on the
\* tool's name): the tool's earlier record gives way to the new one.
db_log_tool_call_replacing(p, calls, stats, id, t, tool_name, parameters, result, status, execution_time_ms, error_message, client_id) ==
    LET kept == SelectSeq(calls, LAMBDA r : r.tool_name # tool_name)
        calls2 == execute_update(kept,
                      ToolCallRow(id, t, client_id, tool_name, parameters, result, status,
                                  execution_time_ms, error_message))
        u == update_tool_stats(p, stats, tool_name, status, t)
    IN  [calls |-> calls2, stats |-> u.rows,
         ret |-> IF u.exc = NULL THEN id ELSE NULL, exc |-> u.exc]

\* MCPToolCallDatabase.log_tool_call: the record is inserted and committed,
\* then the daily row is updated; an exception of the update leaves the
\* record in place.
db_log_tool_call(p, calls, stats, id, t, tool_name, parameters, result, status, execution_time_ms, error_message, client_id) ==
    LET calls2 == execute_update(calls,
                      ToolCallRow(id, t, client_id, tool_name, parameters, result, status,
                                  execution_time_ms, error_message))
        u == update_tool_stats(p, stats, tool_name, status, t)
    IN  [calls |-> calls2, stats |-> u.rows,
         ret |-> IF u.exc = NULL THEN id ELSE NULL, exc |-> u.exc]

\* The first k elements of a sequence.
Take(seq, k) == SubSeq(seq, 1, IF k < Len(seq) THEN k ELSE Len(seq))

\* LIMIT k: the first k rows, and every row when k is negative.
SqlLimit(rows, k) == IF k < 0 THEN rows ELSE Take(rows, k)

\* ORDER BY timestamp DESC. log_tool_call stamps each record with
\* datetime.now().isoformat(), microseconds included, and the model's
\* timestamps keep the minute: among records of one model instant the one
\* logged later read the later clock and has the greater text. Each row, by
\* insertion, is placed before the first row whose timestamp is not greater.
RECURSIVE OrderByTimestampDesc(_)
OrderByTimestampDesc(rows) ==
    IF rows = <<>> THEN <<>>
    ELSE LET r == rows[Len(rows)]
             sorted == OrderByTimestampDesc(SubSeq(rows, 1, Len(rows) - 1))
             before == SelectSeq(sorted, LAMBDA x : ~TextGE(r.timestamp, x.timestamp))
             after == SelectSeq(sorted, LAMBDA x : TextGE(r.timestamp, x.timestamp))
         IN  before \o <<r>> \o after

\* A history read without ORDER BY: the rows come in rowid order, the
\* oldest first.
get_tool_call_history_unordered(calls, tool_name, limit) ==
    LET chosen == IF Truthy(tool_name)
                  THEN execute_query(calls, [i \in RowIds(calls) |-> LET r == calls[i] IN
                                                SqlEq(r.tool_name, tool_name)])
                  ELSE calls
    IN  SqlLimit(chosen, limit)

\* MCPToolCallDatabase.get_tool_call_history
get_tool_call_history(calls, tool_name, limit) ==
    LET chosen == IF Truthy(tool_name)
                  THEN execute_query(calls, [i \in RowIds(calls) |-> LET r == calls[i] IN
                                                SqlEq(r.tool_name, tool_name)])
                  ELSE calls
    IN  SqlLimit(OrderByTimestampDesc(chosen), limit)

\* SQLite's datetime('now', '-N days'): 'YYYY-MM-DD HH:MM:SS'.
sqlite_datetime_minus_days(t, days) ==
    <<(t - days * MinutesPerDay) \div MinutesPerDay, 32, t % MinutesPerDay>>

\* The tool names and statuses the stores are given, in the order of
\* SQLite's BINARY collation (memcmp of the texts).
Collation ==
    <<"A", "B", "C", "a", "b", "c", "create_memory", "error", "failure",
      "get_system_health", "get_tool_call_history", "not_a_tool", "other",
      "search_memories", "store_conversation", "store_memory", "success", "t0", "t1",
      "t10", "t11", "t12", "t13", "t14", "t15", "t2", "t3", "t4", "t5", "t6", "t7", "t8",
      "t9", "unknown">>

\* The texts of a set, in that order.
InCollation(texts) == SelectSeq(Collation, LAMBDA s : s \in texts)

\* GROUP BY the columns (one or two of them): the groups of the rows.
\* SQLite sorts the rows by the columns to group them, so the groups come in
\* ascending order of their keys: by the first column, then by the second.
GroupKeys(rows, columns) ==
    LET keys == {[c \in DOMAIN columns |-> rows[i][columns[c]]] : i \in DOMAIN rows}
        first == InCollation({k[1] : k \in keys})
        second == InCollation({k[Len(columns)] : k \in keys})
        n == Len(second)
        pairs == [p \in 1..(Len(first) * n) |->
                     <<first[((p - 1) \div n) + 1], second[((p - 1) % n) + 1]>>]
    IN  IF Len(columns) = 1 THEN [j \in DOMAIN first |-> <<first[j]>>]
        ELSE SelectSeq(pairs, LAMBDA k : k \in keys)

\* COUNT(*) of the group k.
GroupCount(rows, columns, k) ==
    Cardinality({i \in DOMAIN rows : [c \in DOMAIN columns |-> rows[i][columns[c]]] = k})

Reverse(seq) == [i \in 1..Len(seq) |-> seq[Len(seq) + 1 - i]]

\* ORDER BY V DESC on <<value, row>> pairs: each placed after the pairs whose
\* value is not lower, so that rows of equal value keep the order they come
\* in.
RECURSIVE OrderPairsDesc(_)
OrderPairsDesc(pairs) ==
    IF pairs = <<>> THEN <<>>
    ELSE LET p == pairs[Len(pairs)]
             sorted == OrderPairsDesc(SubSeq(pairs, 1, Len(pairs) - 1))
         IN  SelectSeq(sorted, LAMBDA x : x[1] >= p[1]) \o <<p>>
                 \o SelectSeq(sorted, LAMBDA x : x[1] < p[1])

\* ORDER BY column DESC on rows.
OrderByDesc(rows, column) ==
    LET sorted == OrderPairsDesc([i \in DOMAIN rows |-> <<rows[i][column], rows[i]>>])
    IN  [i \in DOMAIN sorted |-> sorted[i][2]]

\* SQL leaves open the order of rows that are equal under ORDER BY; ties says
\* which the rows come in: "sqlite", the order SQLite returns them in, or
\* "reverse", the opposite one.  SQLite's sorter keeps equal rows in the
\* order they reach it in (the groups by ascending key, the rows of a table
\* by rowid), and under a LIMIT it returns them in the reverse of it.
TieOrders == {"sqlite", "reverse"}
Tied(rows, ties) == IF ties = "sqlite" THEN rows ELSE Reverse(rows)

\* A usage summary whose most-used view has no LIMIT.
get_tool_usage_summary_unlimited(calls, stats, t, days, ties) ==
    LET recent == execute_query(calls,
                      [i \in RowIds(calls) |-> LET r == calls[i] IN
                           TextGE(r.timestamp, sqlite_datetime_minus_days(t, days))])
        by_status == <<"tool_name", "status">>
        by_tool == <<"tool_name">>
        status_keys == Tied(GroupKeys(recent, by_status), ties)
        tool_keys == Tied(Reverse(GroupKeys(recent, by_tool)), ties)
        daily == execute_query(stats, [i \in RowIds(stats) |-> LET r == stats[i] IN
                                          r.date >= today(t) - days])
    IN  [recent_calls |->
             OrderByDesc([i \in DOMAIN status_keys |->
                             [tool_name |-> status_keys[i][1], status |-> status_keys[i][2],
                              count |-> GroupCount(recent, by_status, status_keys[i])]],
                         "count"),
         daily_stats |-> OrderByDesc(OrderByDesc(Tied(daily, ties), "call_count"), "date"),
         most_used_tools |->
             OrderByDesc([i \in DOMAIN tool_keys |->
                             [tool_name |-> tool_keys[i][1],
                              total_calls |-> GroupCount(recent, by_tool, tool_keys[i])]],
                         "total_calls"),
         period_days |-> days]

\* llama MCPToolCallDatabase.get_tool_usage_summary: the calls of the last
\* days days grouped by tool and status, ORDER BY count DESC; the daily rows
\* of these days, ORDER BY date DESC, call_count DESC; the calls grouped by
\* tool, ORDER BY total_calls DESC LIMIT 10.
get_tool_usage_summary(calls, stats, t, days, ties) ==
    LET recent == execute_query(calls,
                      [i \in RowIds(calls) |-> LET r == calls[i] IN
                           TextGE(r.timestamp, sqlite_datetime_minus_days(t, days))])
        daily == execute_query(stats, [i \in RowIds(stats) |-> LET r == stats[i] IN
                                          r.date >= today(t) - days])
        by_status == <<"tool_name", "status">>
        by_tool == <<"tool_name">>
        status_keys == Tied(GroupKeys(recent, by_status), ties)
        tool_keys == Tied(Reverse(GroupKeys(recent, by_tool)), ties)
    IN  [recent_calls |->
             OrderByDesc([i \in DOMAIN status_keys |->
                             [tool_name |-> status_keys[i][1], status |-> status_keys[i][2],
                              count |-> GroupCount(recent, by_status, status_keys[i])]],
                         "count"),
         daily_stats |-> OrderByDesc(OrderByDesc(Tied(daily, ties), "call_count"), "date"),
         most_used_tools |->
             Take(OrderByDesc([i \in DOMAIN tool_keys |->
                                  [tool_name |-> tool_keys[i][1],
                                   total_calls |-> GroupCount(recent, by_tool, tool_keys[i])]],
                              "total_calls"),
                  MostUsedLimit),
         period_days |-> days]

\* ------------------------------------------------------------ coordinator
\* The attributes of PersistentAIMemorySystem as the repository keeps it:
\* what __init__ sets and the methods the class defines.
KeptAttributes ==
    {"data_dir", "enable_file_monitoring", "watch_directories", "conversations_db",
     "ai_memory_db", "schedule_db", "vscode_db", "mcp_tool_call_db",
     "start_file_monitoring", "stop_file_monitoring", "create_memory",
     "store_conversation", "create_appointment", "create_reminder"}

\* The methods the servers call on the coordinator that the class as kept
\* does not define.
CalledMethods == {"log_tool_call", "search_memories", "get_system_health"}

\* The coordinators a server may hold: the class as kept, and the class with
\* the called methods added, its log_tool_call a forward to the tool-call
\* store that takes its arguments either in the order of the server's
\* _log_call or in the order of the store's log_tool_call.
MemorySystems == {"PersistentAIMemorySystem", "with_log_call_order", "with_store_order"}

\* dir(memory_system)
attributes(ms) ==
    IF ms = "PersistentAIMemorySystem" THEN KeptAttributes
    ELSE KeptAttributes \cup CalledMethods

\* hasattr(self.memory_system, name)
hasattr(name) == name \in attributes(memory_system)

\* The stores PersistentAIMemorySystem.__init__ composes, with the source
\* of fresh identifiers; stmt counts the SQL statements the running request
\* has executed, failing holds the numbers of those that fail with a storage
\* error (none, unless the caller of DB says otherwise).
DB ==
    [messages |-> messages, memories |-> memories, appointments |-> appointments,
     reminders |-> reminders, tool_calls |-> tool_calls,
     tool_usage_stats |-> tool_usage_stats, nextId |-> nextId,
     stmt |-> 0, failing |-> {}]

\* What a coordinator call hands back: the stores afterwards, the value
\* returned, the exception's message (NULL when none).
Result(db, ret, exc) == [db |-> db, ret |-> ret, exc |-> exc]

\* str(e) of the sqlite3.OperationalError a statement fails with when the
\* database file cannot be read or written.
StorageError == "database is locked"

\* Of the next k statements, the first that fails (0 when none does).
FirstFailing(db, k) ==
    IF \E i \in 1..k : db.stmt + i \in db.failing
    THEN CHOOSE i \in 1..k : /\ db.stmt + i \in db.failing
                             /\ \A j \in 1..(i - 1) : db.stmt + j \notin db.failing
    ELSE 0

\* A store operation of k statements whose write is its last statement, r
\* being what it does when no statement fails: execute_query and
\* execute_update raise what sqlite3 raises, and a failed statement commits
\* nothing.
Statements(db, k, r) ==
    LET f == FirstFailing(db, k)
    IN  IF f = 0 THEN Result([r.db EXCEPT !.stmt = db.stmt + k], r.ret, r.exc)
        ELSE Result([db EXCEPT !.stmt = db.stmt + f], NULL, StorageError)

\* The statements of a create operation: the duplicate check of the llama
\* package's, and the INSERT when there is one.
statements_create(p, o) == (IF p = "llama" THEN 1 ELSE 0) + o.used

\* The statements of store_message: the duplicate check the llama package
\* runs for a session, and the INSERT when there is one.
statements_store_message(p, session_id, o) ==
    (IF p = "llama" /\ Truthy(session_id) THEN 1 ELSE 0) + (IF o.used > 0 THEN 1 ELSE 0)

\* MCPToolCallDatabase.log_tool_call when its statement f fails with a
\* storage error (1 the INSERT of the record, 2 the SELECT of the daily row,
\* 3 the write of the daily row; 0 when none fails), o being what it does
\* when none fails: each statement commits on its own, so the record
\* inserted before a failing statement stays.
log_tool_call_failing(f, calls, stats, o) ==
    IF f = 0 THEN o
    ELSE [calls |-> IF f = 1 THEN calls ELSE o.calls, stats |-> stats,
          ret |-> NULL, exc |-> StorageError]

\* A create_memory with logic of its own added to the forward: it also
\* appends a record of the call to the tool-call store.
create_memory_recording(p, db, t, content, memory_type, importance_level, tags, source_conversation_id) ==
    LET o == db_create_memory(p, db.memories, uuid4(db.nextId), t, content, memory_type,
                              importance_level, tags, source_conversation_id)
    IN  Result([db EXCEPT !.memories = o.rows, !.nextId = @ + o.used + 1,
                          !.tool_calls = Append(@, ToolCallRow(uuid4(db.nextId + o.used), t, NULL,
                                                               "create_memory", <<>>, PyNone,
                                                               "success", NULL, NULL))],
               o.ret, o.exc)

\* PersistentAIMemorySystem.create_memory
create_memory(p, db, t, content, memory_type, importance_level, tags, source_conversation_id) ==
    LET o == db_create_memory(p, db.memories, uuid4(db.nextId), t, content, memory_type,
                              importance_level, tags, source_conversation_id)
    IN  Statements(db, statements_create(p, o),
                   Result([db EXCEPT !.memories = o.rows, !.nextId = @ + o.used], o.ret, o.exc))

\* PersistentAIMemorySystem.store_conversation
store_conversation(p, db, t, content, role, session_id, conversation_id, metadata) ==
    LET o == db_store_message(p, db.messages, db.nextId, t, content, role, session_id,
                              conversation_id, metadata)
    IN  Statements(db, statements_store_message(p, session_id, o),
                   Result([db EXCEPT !.messages = o.rows, !.nextId = @ + o.used], o.ret, o.exc))

\* PersistentAIMemorySystem.create_appointment
create_appointment(p, db, t, title, scheduled_datetime, description, location, source_conversation_id) ==
    LET o == db_create_appointment(p, db.appointments, uuid4(db.nextId), t, title,
                                   scheduled_datetime, description, location,
                                   source_conversation_id)
    IN  Statements(db, statements_create(p, o),
                   Result([db EXCEPT !.appointments = o.rows, !.nextId = @ + o.used], o.ret, o.exc))

\* PersistentAIMemorySystem.create_reminder
create_reminder(p, db, t, content, due_datetime, priority_level, source_conversation_id) ==
    LET o == db_create_reminder(p, db.reminders, uuid4(db.nextId), t, content, due_datetime,
                                priority_level, source_conversation_id)
    IN  Statements(db, statements_create(p, o),
                   Result([db EXCEPT !.reminders = o.rows, !.nextId = @ + o.used], o.ret, o.exc))

\* str(e) of what int(v) raises for a value v that is no number: a ValueError
\* for a string (an identifier or a message, never a numeral), a TypeError
\* for a list or a dict.
int_refuses(v) ==
    IF "str" \in DOMAIN v
    THEN "invalid literal for int() with base 10: '" \o v.str \o "'"
    ELSE "int() argument must be a string, a bytes-like object or a real number, not '"
         \o (IF "list" \in DOMAIN v THEN "list" ELSE "dict") \o "'"

\* log_tool_call of a coordinator that has one, called with the server's
\* seven positional arguments: a forward to the tool-call store.  Taking
\* them in the order of _log_call, it passes each on under its name.  Taking
\* them in the order of the store's log_tool_call (tool_name, parameters,
\* result, status, execution_time_ms, ...), it receives the server's
\* execution_time_ms, always None, as result and the server's result as
\* execution_time_ms, of which the store takes int() when it is truthy:
\* that raises before the INSERT.
log_tool_call(p, db, t, tool_name, parameters, execution_time_ms, status, result, error_message, client_id) ==
    LET store_order == memory_system = "with_store_order"
        o == db_log_tool_call(p, db.tool_calls, db.tool_usage_stats, uuid4(db.nextId), t,
                              tool_name, parameters,
                              IF ~store_order THEN result
                              ELSE IF is_none(execution_time_ms) THEN PyNone
                              ELSE PyNum(execution_time_ms),
                              status,
                              IF store_order THEN NULL ELSE execution_time_ms,
                              error_message, client_id)
        f == FirstFailing(db, 3)
        q == log_tool_call_failing(f, db.tool_calls, db.tool_usage_stats, o)
    IN  IF store_order /\ py_truthy(result)
        THEN Result(db, NULL, int_refuses(result))
        ELSE Result([db EXCEPT !.tool_calls = q.calls, !.tool_usage_stats = q.stats,
                               !.nextId = @ + 1, !.stmt = @ + (IF f = 0 THEN 3 ELSE f)],
                    q.ret, q.exc)

\* search_memories of a coordinator that has one: the ids of the memories
\* whose content is the query, at most limit of them.
search_memories(db, query, limit) ==
    LET hits == execute_query(db.memories, [i \in RowIds(db.memories) |-> LET r == db.memories[i] IN
                                               SqlEq(r.content, query)])
    IN  Statements(db, 1,
                   Result(db, Take([i \in 1..Len(hits) |-> hits[i].memory_id], limit), NULL))

\* get_system_health of a coordinator that has one: a health summary map.
get_system_health(db) == Result(db, <<<<"status", Quote("healthy")>>>>, NULL)

\* ------------------------------------------------------------- dispatcher
\* hasattr(self.memory_system, "log_tool_call")
has_log_tool_call == hasattr("log_tool_call")

\* hasattr(self.memory_system, "mcp_db"): __init__ names the tool-call store
\* mcp_tool_call_db and no coordinator has an attribute mcp_db.
has_mcp_db == hasattr("mcp_db")

\* hasattr(mcp_db, "get_tool_call_history") of a tool-call store: the llama
\* package's MCPToolCallDatabase defines the method, the llm package's does
\* not.
store_has_get_tool_call_history(p) == p = "llama"

\* The guard of the history read: both conditions.
reads_history(p) == has_mcp_db /\ store_has_get_tool_call_history(p)

\* str(e) of the AttributeError _call_method raises.
not_available(method_name) ==
    "Method " \o method_name \o " not available on memory system"

\* PersistentAIMemoryMCPServer._call_method: r, what the coordinator's method
\* does, when the coordinator has the method; else AttributeError.
call_method(db, method_name, r) ==
    IF hasattr(method_name) THEN r
    ELSE Result(db, NULL, not_available(method_name))

\* str(tool) in f"Unknown tool: {tool}"
str(tool) == IF tool = NULL THEN "None" ELSE tool

\* What handle_mcp_request hands back: the stores afterwards and the
\* response.
Handled(db, resp) == [db |-> db, resp |-> resp]

\* PersistentAIMemoryMCPServer._log_call: the coordinator's log_tool_call,
\* whose exception is swallowed.
log_call(p, db, t, tool_name, parameters, execution_time_ms, status, result, error_message, client_id) ==
    IF has_log_tool_call
    THEN log_tool_call(p, db, t, tool_name, parameters, execution_time_ms, status, result,
                       error_message, client_id).db
    ELSE db

\* Whether _log_call, given the result to log, has a record appended when
\* no statement fails: the coordinator has log_tool_call, and the store does
\* not receive a truthy result as its execution_time_ms.
appends_record(result) ==
    has_log_tool_call /\ ~(memory_system = "with_store_order" /\ py_truthy(result))

\* A success path whose logging is not guarded: an exception of
\* log_tool_call reaches the except clause, which logs again and answers
\* with it.
Succeed_Unguarded(p, db, t, tool, params, client_id, logged, returned) ==
    LET r == log_tool_call(p, db, t, tool, params, NULL, "success", logged, NULL, client_id)
    IN  IF ~has_log_tool_call
        THEN Handled(db, [status |-> "success", result |-> returned])
        ELSE IF r.exc = NULL
        THEN Handled(r.db, [status |-> "success", result |-> returned])
        ELSE Handled(log_call(p, r.db, t, Or(tool, "unknown"), params, NULL, "error", PyNone,
                              r.exc, client_id),
                     [status |-> "error", error |-> r.exc])

\* The success path of a branch: the call is logged, then the response.
Succeed(p, db, t, tool, params, client_id, logged, returned) ==
    Handled(log_call(p, db, t, tool, params, NULL, "success", logged, NULL, client_id),
            [status |-> "success", result |-> returned])

\* An except clause that answers without logging the call.
Except_Unlogged(p, db, t, tool, params, client_id, e) ==
    Handled(db, [status |-> "error", error |-> e])

\* An except clause that logs the call and raises the exception again: the
\* caller gets no response but the exception.
Except_Raising(p, db, t, tool, params, client_id, e) ==
    Handled(log_call(p, db, t, Or(tool, "unknown"), params, NULL, "error", PyNone, e,
                     client_id),
            [raised |-> e])

\* An except clause that retries: it stores the request's content once more,
\* without the session, before it logs the call and answers.
Except_Retrying(p, db, t, tool, params, client_id, e) ==
    LET r == IF is_dict(params)
             THEN store_conversation(p, db, t,
                                     Or(get(params, "user_message", NULL),
                                        get(params, "content", NULL)),
                                     "user", NULL, NULL, <<>>)
             ELSE Result(db, NULL, NULL)
    IN  Handled(log_call(p, r.db, t, Or(tool, "unknown"), params, NULL, "error", PyNone, e,
                         client_id),
                [status |-> "error", error |-> e])

\* The except clause: the call is logged with status "error" and the
\* exception's message, then the error response.
Except(p, db, t, tool, params, client_id, e) ==
    Handled(log_call(p, db, t, Or(tool, "unknown"), params, NULL, "error", PyNone, e,
                     client_id),
            [status |-> "error", error |-> e])

\* params.get(...) on parameters that are no dict raises this.
no_get == "'str' object has no attribute 'get'"

\* An unknown-tool return that leaves the tool's name out of the message.
Unknown_Nameless(db, tool) ==
    Handled(db, [status |-> "error", error |-> "Unknown tool"])

\* The unknown-tool return.
Unknown(db, tool) ==
    Handled(db, [status |-> "error", error |-> "Unknown tool: " \o str(tool)])

\* Branch arguments with one default limit for both tools that take a
\* limit: search_memories without limit asks for 50 as the history does.
branch_args_one_limit(tool, params, i) ==
    CASE tool \in {"store_memory", "create_memory"} ->
             <<Or(get(params, "content", NULL), get(params, "memory_content", NULL)),
               get(params, "memory_type", NULL),
               get(params, "importance_level", DefaultImportance),
               get(params, "tags", NULL),
               get(params, "source_conversation_id", NULL)>>
      [] tool = "search_memories" ->
             <<get(params, "query", NULL), get(params, "limit", DefaultHistoryLimit)>>
      [] tool = "get_system_health" -> <<>>
      [] tool = "get_tool_call_history" -> <<get(params, "limit", DefaultHistoryLimit)>>
      [] OTHER ->
             <<IF i = 1
               THEN Or(get(params, "user_message", NULL), get(params, "content", NULL))
               ELSE get(params, "assistant_response", NULL),
               IF i = 1 THEN "user" ELSE "assistant",
               get(params, "session_id", NULL),
               NULL,
               get(params, "metadata", NULL)>>

\* The arguments a branch evaluates for the i-th call it awaits, in the
\* order it passes them: those of create_memory, of search_memories, of
\* get_system_health, the limit of the history read, those of
\* store_conversation for the user message (i = 1) and the assistant's.
branch_args(tool, params, i) ==
    CASE tool \in {"store_memory", "create_memory"} ->
             <<Or(get(params, "content", NULL), get(params, "memory_content", NULL)),
               get(params, "memory_type", NULL),
               get(params, "importance_level", DefaultImportance),
               get(params, "tags", NULL),
               get(params, "source_conversation_id", NULL)>>
      [] tool = "search_memories" ->
             <<get(params, "query", NULL), get(params, "limit", DefaultSearchLimit)>>
      [] tool = "get_system_health" -> <<>>
      [] tool = "get_tool_call_history" -> <<get(params, "limit", DefaultHistoryLimit)>>
      [] OTHER ->
             <<IF i = 1
               THEN Or(get(params, "user_message", NULL), get(params, "content", NULL))
               ELSE get(params, "assistant_response", NULL),
               IF i = 1 THEN "user" ELSE "assistant",
               get(params, "session_id", NULL),
               NULL,
               get(params, "metadata", NULL)>>

\* A create_memory branch that guards its call as the history branch guards
\* its read: an exception of the call is swallowed and the request is
\* answered success with no id.
handle_create_memory_swallowing(p, db, t, tool, params, client_id) ==
    LET a == branch_args(tool, params, 1)
        r == call_method(db, "create_memory",
                         create_memory(p, db, t, a[1], a[2], a[3], a[4], a[5]))
    IN  IF ~is_dict(params)
        THEN Except(p, db, t, tool, params, client_id, no_get)
        ELSE IF r.exc # NULL
        THEN Succeed(p, r.db, t, tool, params, client_id, PyNone, PyNone)
        ELSE Succeed(p, r.db, t, tool, params, client_id, PyStr(r.ret), PyStr(r.ret))

\* The branch of store_memory and create_memory (both servers).
handle_create_memory(p, db, t, tool, params, client_id) ==
    LET a == branch_args(tool, params, 1)
        r == call_method(db, "create_memory",
                         create_memory(p, db, t, a[1], a[2], a[3], a[4], a[5]))
    IN  IF ~is_dict(params)
        THEN Except(p, db, t, tool, params, client_id, no_get)
        ELSE IF r.exc # NULL
        THEN Except(p, r.db, t, tool, params, client_id, r.exc)
        ELSE Succeed(p, r.db, t, tool, params, client_id, PyStr(r.ret), PyStr(r.ret))

\* The branch of search_memories.
handle_search_memories(p, db, t, tool, params, client_id) ==
    LET a == branch_args(tool, params, 1)
        r == call_method(db, "search_memories", search_memories(db, a[1], a[2]))
    IN  IF ~is_dict(params)
        THEN Except(p, db, t, tool, params, client_id, no_get)
        ELSE IF r.exc # NULL
        THEN Except(p, r.db, t, tool, params, client_id, r.exc)
        ELSE Succeed(p, r.db, t, tool, params, client_id, PyList(r.ret), PyList(r.ret))

\* The branch of get_system_health.
handle_get_system_health(p, db, t, tool, params, client_id) ==
    LET r == call_method(db, "get_system_health", get_system_health(db))
    IN  IF r.exc # NULL
        THEN Except(p, r.db, t, tool, params, client_id, r.exc)
        ELSE Succeed(p, r.db, t, tool, params, client_id, PyDict(r.ret), PyDict(r.ret))

\* The read of the history branch: rows stays [] unless memory_system has an
\* mcp_db that has get_tool_call_history, whose rows it then takes; an
\* exception of that read leaves rows = [].
history_rows(p, db, limit) ==
    LET read == IF reads_history(p)
                THEN Statements(db, 1,
                                Result(db, get_tool_call_history(db.tool_calls, NULL, limit),
                                       NULL))
                ELSE Result(db, <<>>, NULL)
    IN  Result(read.db, IF read.exc # NULL THEN <<>> ELSE read.ret, NULL)

\* The branch of get_tool_call_history (both servers): the call is logged
\* with the number of the rows read, the response carries them.
handle_get_tool_call_history(p, db, t, tool, params, client_id) ==
    LET a == branch_args(tool, params, 1)
        read == history_rows(p, db, a[1])
    IN  IF ~is_dict(params)
        THEN Except(p, db, t, tool, params, client_id, no_get)
        ELSE Succeed(p, read.db, t, tool, params, client_id,
                     PyDict(<<<<"history_count", ToString(Len(read.ret))>>>>),
                     [history |-> read.ret])

\* A store_conversation branch that is one transaction: when the assistant
\* message cannot be written, the user message is taken back.
handle_store_conversation_rollback(p, db, t, tool, params, client_id) ==
    LET a1 == branch_args(tool, params, 1)
        a2 == branch_args(tool, params, 2)
        m1 == call_method(db, "store_conversation",
                          store_conversation(p, db, t, a1[1], a1[2], a1[3], a1[4], a1[5]))
        m2 == call_method(m1.db, "store_conversation",
                          store_conversation(p, m1.db, t, a2[1], a2[2], a2[3], a2[4], a2[5]))
        res == PyDict(<<<<"conversation_id",
                          json_opt(get(m1.ret, "conversation_id", NULL))>>>>)
    IN  IF ~is_dict(params)
        THEN Except(p, db, t, tool, params, client_id, no_get)
        ELSE IF m1.exc # NULL
        THEN Except(p, m1.db, t, tool, params, client_id, m1.exc)
        ELSE IF ~Truthy(a2[1])
        THEN Succeed(p, m1.db, t, tool, params, client_id, res, res)
        ELSE IF m2.exc # NULL
        THEN Except(p, [m2.db EXCEPT !.messages = db.messages], t, tool, params, client_id,
                    m2.exc)
        ELSE Succeed(p, m2.db, t, tool, params, client_id, res, res)

\* The branch of store_conversation: the user message, then the assistant
\* message when there is one.
handle_store_conversation(p, db, t, tool, params, client_id) ==
    LET a1 == branch_args(tool, params, 1)
        a2 == branch_args(tool, params, 2)
        m1 == call_method(db, "store_conversation",
                          store_conversation(p, db, t, a1[1], a1[2], a1[3], a1[4], a1[5]))
        m2 == call_method(m1.db, "store_conversation",
                          store_conversation(p, m1.db, t, a2[1], a2[2], a2[3], a2[4], a2[5]))
        res == PyDict(<<<<"conversation_id",
                          json_opt(get(m1.ret, "conversation_id", NULL))>>>>)
    IN  IF ~is_dict(params)
        THEN Except(p, db, t, tool, params, client_id, no_get)
        ELSE IF m1.exc # NULL
        THEN Except(p, m1.db, t, tool, params, client_id, m1.exc)
        ELSE IF ~Truthy(a2[1])
        THEN Succeed(p, m1.db, t, tool, params, client_id, res, res)
        ELSE IF m2.exc # NULL
        THEN Except(p, m2.db, t, tool, params, client_id, m2.exc)
        ELSE Succeed(p, m2.db, t, tool, params, client_id, res, res)

\* mcp_server.py PersistentAIMemoryMCPServer.handle_mcp_request
handle_mcp_request(p, db, t, request, client_id) ==
    LET tool == get(request, "tool", NULL)
        params == parameters_or_empty(request)
    IN  IF tool \in {"store_memory", "create_memory"}
        THEN handle_create_memory(p, db, t, tool, params, client_id)
        ELSE IF tool = "search_memories"
        THEN handle_search_memories(p, db, t, tool, params, client_id)
        ELSE IF tool = "get_system_health"
        THEN handle_get_system_health(p, db, t, tool, params, client_id)
        ELSE IF tool = "get_tool_call_history"
        THEN handle_get_tool_call_history(p, db, t, tool, params, client_id)
        ELSE IF tool = "store_conversation"
        THEN handle_store_conversation(p, db, t, tool, params, client_id)
        ELSE Unknown(db, tool)

\* mcp_server_clean.py PersistentAIMemoryMCPServer.handle_mcp_request
clean_handle_mcp_request(p, db, t, request, client_id) ==
    LET tool == get(request, "tool", NULL)
        params == parameters_or_empty(request)
    IN  IF tool \in {"store_memory", "create_memory"}
        THEN handle_create_memory(p, db, t, tool, params, client_id)
        ELSE IF tool = "get_tool_call_history"
        THEN handle_get_tool_call_history(p, db, t, tool, params, client_id)
        ELSE Unknown(db, tool)

\* The coordinator calls a branch of handle_mcp_request awaits, one after the
\* other (the guarded read of the history counts as one); 0 for a tool that
\* has no branch.
branch_calls(tool, params) ==
    IF tool \in {"store_memory", "create_memory", "search_memories", "get_system_health",
                 "get_tool_call_history"}
    THEN 1
    ELSE IF tool = "store_conversation"
    THEN 1 + (IF Truthy(get(params, "assistant_response", NULL)) THEN 1 ELSE 0)
    ELSE 0

\* The i-th of them, made with the arguments the branch evaluated.
branch_call(p, db, t, tool, params, i) ==
    LET a == branch_args(tool, params, i)
    IN  CASE tool \in {"store_memory", "create_memory"} ->
                 call_method(db, "create_memory",
                             create_memory(p, db, t, a[1], a[2], a[3], a[4], a[5]))
          [] tool = "search_memories" ->
                 call_method(db, "search_memories", search_memories(db, a[1], a[2]))
          [] tool = "get_system_health" ->
                 call_method(db, "get_system_health", get_system_health(db))
          [] tool = "get_tool_call_history" -> history_rows(p, db, a[1])
          [] OTHER ->
                 call_method(db, "store_conversation",
                             store_conversation(p, db, t, a[1], a[2], a[3], a[4], a[5]))

\* What a branch logs as the call's result and what it returns, ret being
\* what its first call returned.
branch_result(tool, ret) ==
    CASE tool \in {"store_memory", "create_memory"} ->
             [logged |-> PyStr(ret), returned |-> PyStr(ret)]
      [] tool = "search_memories" -> [logged |-> PyList(ret), returned |-> PyList(ret)]
      [] tool = "get_system_health" -> [logged |-> PyDict(ret), returned |-> PyDict(ret)]
      [] tool = "get_tool_call_history" ->
             [logged |-> PyDict(<<<<"history_count", ToString(Len(ret))>>>>),
              returned |-> [history |-> ret]]
      [] OTHER ->
             LET res == PyDict(<<<<"conversation_id",
                                   json_opt(get(ret, "conversation_id", NULL))>>>>)
             IN  [logged |-> res, returned |-> res]

\* ----------------------------------------------------------------- inputs
Contents == {"x", "y"}
MemoryTypes == {NULL, "note"}
Sources == {NULL, "c1"}
Datetimes == {"2025-03-01T10:00:00", "2025-03-02T10:00:00"}
Locations == {NULL, "clinic"}

\* create_memory's arguments <<content, memory_type, source_conversation_id,
\* importance_level, tags>>: every key with the default importance and no
\* tags, and one key again with values of the caller's.
MemoryInputs ==
    { <<c, mt, s, DefaultImportance, <<>>>> : c \in Contents, mt \in MemoryTypes, s \in Sources }
    \cup { <<"x", "note", NULL, 9, <<"t">>>> }

\* create_appointment's arguments <<title, scheduled_datetime, location,
\* source_conversation_id, description>>.
AppointmentInputs ==
    { <<"Dentist", d, l, s, NULL>> : d \in Datetimes, l \in Locations, s \in Sources }
    \cup { <<"Dentist", "2025-03-01T10:00:00", NULL, NULL, "checkup">> }

\* create_reminder's arguments <<content, due_datetime, source_conversation_id,
\* priority_level>>.
ReminderInputs ==
    { <<c, d, s, 5>> : c \in Contents, d \in Datetimes, s \in Sources }
    \cup { <<"x", "2025-03-01T10:00:00", NULL, 1>> }

\* store_conversation's arguments <<content, role, session_id, conversation_id>>.
MessageInputs ==
    { <<"x", "user", "S", NULL>>, <<"x", "user", NULL, NULL>>,
      <<"x", "assistant", "S", NULL>>, <<"y", "user", "S", "conv1">>,
      <<"x", "user", "S", "conv1">> }

\* The statuses the dispatcher records a call with: status="success" of the
\* branches, status="error" of the except clause.
DispatcherStatuses == {"success", "error"}

\* log_tool_call's arguments <<tool_name, status>>.
LogInputs == {"create_memory", "get_system_health"} \X DispatcherStatuses

\* The execution_time_ms a call is logged with: None for create_memory, as
\* the dispatcher passes it; for the health check a positive number of
\* milliseconds when it succeeded and zero when it failed.
ExecutionTimeOf(a) ==
    IF a[1] = "create_memory" THEN NULL
    ELSE IF a[2] = "success" THEN 12
    ELSE 0

\* The requests the dispatcher is sent, each with the caller's client_id.
Requests ==
    { <<[tool |-> "create_memory",
         parameters |-> [content |-> "x", memory_type |-> "note"]], "test-client">>,
      <<[tool |-> "store_memory",
         parameters |-> [memory_content |-> "y", importance_level |-> 9,
                         tags |-> <<"t">>, source_conversation_id |-> "c1"]], NULL>>,
      <<[tool |-> "create_memory", parameters |-> [not_a_dict |-> "oops"]], NULL>>,
      <<[tool |-> "create_memory", parameters |-> [not_a_dict |-> ""]], NULL>>,
      <<[tool |-> "search_memories", parameters |-> [query |-> "x"]], NULL>>,
      <<[tool |-> "get_system_health"], "test-client">>,
      <<[tool |-> "get_tool_call_history", parameters |-> [limit |-> 1]], "test-client">>,
      <<[tool |-> "get_tool_call_history"], NULL>>,
      <<[tool |-> "store_conversation",
         parameters |-> [user_message |-> "hi", session_id |-> NULL, metadata |-> <<>>]],
        NULL>>,
      <<[tool |-> "store_conversation",
         parameters |-> [content |-> "hi", assistant_response |-> "hello",
                         session_id |-> "S"]], "test-client">>,
      <<[tool |-> "store_conversation",
         parameters |-> [user_message |-> "hi", assistant_response |-> "hello"]], NULL>>,
      <<[tool |-> "not_a_tool", parameters |-> <<>>], "test-client">>,
      <<[parameters |-> <<>>], NULL>> }

\* get_tool_call_history's arguments <<tool_name, limit>>: no filter or a
\* tool's name, and limits from none of the records to more than are stored,
\* with the negative limit that SQLite takes for none.
HistoryInputs == {NULL, "create_memory"} \X ((-1)..(MaxCalls + 1))

\* The most statements one request executes: two store operations' worth
\* (a duplicate check and an INSERT, or the two INSERTs of a conversation
\* turn), then the three of log_tool_call.
RequestStatements == 5

\* Which statements of a request fail with a storage error: none, any one,
\* or the first two (the store operation's and then the telemetry's).
FaultPlans ==
    {{}} \cup {{i} : i \in 1..RequestStatements} \cup {{1, 2}}

\* The requests sent while statements may fail, each with the caller's
\* client_id.
FaultRequests ==
    { <<[tool |-> "create_memory",
         parameters |-> [content |-> "Test memory from shim", memory_type |-> "note"]],
        "test-client">>,
      <<[tool |-> "get_tool_call_history", parameters |-> [limit |-> 10]], "test-client">>,
      <<[tool |-> "search_memories", parameters |-> [query |-> "Test memory from shim"]],
        NULL>>,
      <<[tool |-> "get_system_health"], "test-client">>,
      <<[tool |-> "store_conversation",
         parameters |-> [user_message |-> "hi", assistant_response |-> "hello"]], NULL>>,
      <<[tool |-> "create_memory", parameters |-> [not_a_dict |-> "oops"]], NULL>>,
      <<[parameters |-> <<>>], NULL>> }

\* The callers that may have a store call in progress at the same time, each
\* on a connection of its own.
Writers == {"w1", "w2"}

\* The calls two writers issue with the same dedup key, <<operation,
\* arguments>>, the arguments as in MemoryInputs, AppointmentInputs,
\* ReminderInputs and MessageInputs.
RaceCalls ==
    { <<"create_memory", <<"x", "note", NULL, DefaultImportance, <<>>>>>>,
      <<"create_appointment", <<"Dentist", "2025-03-01T10:00:00", "clinic", "c1", NULL>>>>,
      <<"create_reminder", <<"x", "2025-03-01T10:00:00", "c1", DefaultImportance>>>>,
      <<"store_message", <<"x", "user", "S", NULL>>>> }

\* The table a store operation writes.
TableOf(op) ==
    CASE op = "create_memory" -> "memories"
      [] op = "create_appointment" -> "appointments"
      [] op = "create_reminder" -> "reminders"
      [] OTHER -> "messages"

\* The coordinator operation a writer calls, run from start to end.
call(p, db, t, op, a) ==
    CASE op = "create_memory" -> create_memory(p, db, t, a[1], a[2], a[4], a[5], a[3])
      [] op = "create_appointment" -> create_appointment(p, db, t, a[1], a[2], a[5], a[3], a[4])
      [] op = "create_reminder" -> create_reminder(p, db, t, a[1], a[2], a[4], a[3])
      [] OTHER -> store_conversation(p, db, t, a[1], a[2], a[3], a[4], <<>>)

\* The calls a caller of the coordinator issues, <<operation, arguments>>:
\* those of RaceCalls, a call of each create operation that has the key of
\* one of them and other values, a memory of another key, and a message
\* without a session.
CoordinatorCalls ==
    RaceCalls \cup
    { <<"create_memory", <<"x", "note", NULL, 9, <<"t">>>>>>,
      <<"create_memory", <<"y", NULL, "c1", DefaultImportance, <<>>>>>>,
      <<"create_appointment", <<"Dentist", "2025-03-01T10:00:00", "clinic", "c1", "checkup">>>>,
      <<"create_reminder", <<"x", "2025-03-01T10:00:00", "c1", 1>>>>,
      <<"store_message", <<"x", "user", NULL, NULL>>>> }

\* The connections a caller has opened that are not closed yet.
open_connections(k) == get(k, "open", 0)

\* The calls of the store primitive, <<method, content of the row>>: a write
\* of a memory row, or a read of the table.
PrimitiveCalls == {<<"execute_update", "x">>, <<"execute_query", NULL>>}

\* The days a usage summary is asked for: the default, and none.
SummaryDays == {DefaultSummaryDays, 0}

\* The tool the next logged call may name when the table holds the calls:
\* the first tool logged, or one no call has named.
SummaryTools(calls) ==
    LET named == {calls[i].tool_name : i \in DOMAIN calls}
        new == "t" \o ToString(Cardinality(named) + 1)
    IN  IF Len(calls) < SmallScope THEN {"t1", new} ELSE {new}

\* Whether the operation starts with a duplicate check: the create
\* operations of the llama package do, its store_message does for a
\* session_id, the llm package's operations do not.
has_duplicate_check(p, op, a) ==
    p = "llama" /\ (op # "store_message" \/ Truthy(a[3]))

\* A call in progress or ended: its position, whether its read (the
\* duplicate check, the SELECT of the daily row) ran before the other
\* writer's write, the row it is to insert or has inserted or, of
\* log_tool_call, the daily row it read (<<>> when none), whether its write
\* has run, what it returned or raised.
Task(pc, op, a, early, row, inserted, ret, exc) ==
    [pc |-> pc, op |-> op, a |-> a, early |-> early, row |-> row, inserted |-> inserted,
     ret |-> ret, exc |-> exc]

\* A writer with no call in progress.
Idle == Task("idle", NULL, <<>>, FALSE, <<>>, FALSE, NULL, NULL)

\* The other writer.
Other(w) == CHOOSE v \in Writers : v # w

\* The row a call run on db inserts: the last of its table afterwards
\* (<<>> when it inserts none).
NewRow(db, r, op) ==
    IF Len(r.db[TableOf(op)]) > Len(db[TableOf(op)])
    THEN <<r.db[TableOf(op)][Len(r.db[TableOf(op)])]>>
    ELSE <<>>

\* ----------------------------------------------------------------- actions
InitStores ==
    /\ dispatched = 0
    /\ pkg \in Packages
    /\ now = 1440
    /\ nextId = 1
    /\ messages = <<>>
    /\ memories = <<>>
    /\ appointments = <<>>
    /\ reminders = <<>>
    /\ tool_calls = <<>>
    /\ tool_usage_stats = <<>>
    /\ last = [op |-> "none", n |-> 0]
    /\ tasks = [w \in Writers |-> Idle]

\* The stores as constructed, under the coordinator class as kept.
Init ==
    /\ memory_system = "PersistentAIMemorySystem"
    /\ InitStores

\* A server as constructed: its coordinator is the class as kept or one that
\* has the methods the server calls.
InitServer ==
    /\ memory_system \in MemorySystems
    /\ InitStores

\* The stores after an operation.
Commit(db) ==
    /\ messages' = db.messages
    /\ memories' = db.memories
    /\ appointments' = db.appointments
    /\ reminders' = db.reminders
    /\ tool_calls' = db.tool_calls
    /\ tool_usage_stats' = db.tool_usage_stats
    /\ nextId' = db.nextId

\* The tables stay within the model's bounds.
InBounds(db) ==
    /\ Len(db.messages) <= MaxRows
    /\ Len(db.memories) <= MaxRows
    /\ Len(db.appointments) <= MaxRows
    /\ Len(db.reminders) <= MaxRows
    /\ Len(db.tool_calls) <= MaxCalls

\* Time passes: the clock moves to a later instant.
Tick ==
    /\ \E t \in Instants : t > now /\ now' = t
    /\ UNCHANGED <<memory_system, dispatched, pkg, tasks, nextId, messages, memories, appointments, reminders,
                   tool_calls, tool_usage_stats, last>>

\* A caller of the coordinator's create_memory.
CreateMemory ==
    \E a \in MemoryInputs :
        LET r == create_memory(pkg, DB, now, a[1], a[2], a[4], a[5], a[3])
        IN  /\ InBounds(r.db)
            /\ Commit(r.db)
            /\ last' = [op |-> "create_memory", n |-> 1 - last.n,
                        key |-> <<a[1], a[2], a[3]>>, importance_level |-> a[4],
                        ret |-> r.ret, exc |-> r.exc]
            /\ UNCHANGED <<memory_system, dispatched, pkg, now, tasks>>

\* A caller of the coordinator's create_appointment.
CreateAppointment ==
    \E a \in AppointmentInputs :
        LET r == create_appointment(pkg, DB, now, a[1], a[2], a[5], a[3], a[4])
        IN  /\ InBounds(r.db)
            /\ Commit(r.db)
            /\ last' = [op |-> "create_appointment", n |-> 1 - last.n,
                        key |-> <<a[1], a[2], a[3], a[4]>>, description |-> a[5],
                        ret |-> r.ret, exc |-> r.exc]
            /\ UNCHANGED <<memory_system, dispatched, pkg, now, tasks>>

\* A caller of the coordinator's create_reminder.
CreateReminder ==
    \E a \in ReminderInputs :
        LET r == create_reminder(pkg, DB, now, a[1], a[2], a[4], a[3])
        IN  /\ InBounds(r.db)
            /\ Commit(r.db)
            /\ last' = [op |-> "create_reminder", n |-> 1 - last.n,
                        key |-> <<a[1], a[2], a[3]>>, priority_level |-> a[4],
                        ret |-> r.ret, exc |-> r.exc]
            /\ UNCHANGED <<memory_system, dispatched, pkg, now, tasks>>

\* A caller of the coordinator's store_conversation (store_message).
StoreConversation ==
    \E a \in MessageInputs :
        LET r == store_conversation(pkg, DB, now, a[1], a[2], a[3], a[4], <<>>)
        IN  /\ InBounds(r.db)
            /\ Commit(r.db)
            /\ last' = [op |-> "store_message", n |-> 1 - last.n,
                        key |-> <<a[1], a[2], a[3]>>, conversation_id |-> a[4],
                        at |-> now, ret |-> r.ret, exc |-> r.exc]
            /\ UNCHANGED <<memory_system, dispatched, pkg, now, tasks>>

\* A caller of the tool-call store's log_tool_call.
LogToolCall ==
    \E a \in LogInputs :
        LET o == db_log_tool_call(pkg, tool_calls, tool_usage_stats, uuid4(nextId), now,
                                  a[1], <<>>, PyNone, a[2], ExecutionTimeOf(a),
                                  IF a[2] = "success" THEN NULL ELSE "boom", NULL)
        IN  /\ Len(o.calls) <= MaxCalls
            /\ tool_calls' = o.calls
            /\ tool_usage_stats' = o.stats
            /\ nextId' = nextId + 1
            /\ last' = [op |-> "log_tool_call", n |-> 1 - last.n,
                        tool_name |-> a[1], status |-> a[2],
                        ret |-> o.ret, exc |-> o.exc]
            /\ UNCHANGED <<memory_system, dispatched, pkg, now, tasks, messages, memories, appointments, reminders>>

\* A caller of the tool-call store's get_tool_call_history: the llama
\* package's store reads the rows; the llm package's MCPToolCallDatabase
\* defines no such method and the attribute lookup raises AttributeError.
GetToolCallHistory ==
    \E a \in HistoryInputs :
        /\ last' = [op |-> "get_tool_call_history", n |-> 1 - last.n,
                    tool_name |-> a[1], limit |-> a[2],
                    ret |-> IF store_has_get_tool_call_history(pkg)
                            THEN get_tool_call_history(tool_calls, a[1], a[2])
                            ELSE NULL,
                    exc |-> IF store_has_get_tool_call_history(pkg)
                            THEN NULL
                            ELSE "'MCPToolCallDatabase' object has no attribute 'get_tool_call_history'"]
        /\ UNCHANGED <<memory_system, dispatched, pkg, now, tasks, nextId, messages, memories, appointments, reminders,
                       tool_calls, tool_usage_stats>>

\* A caller of the tool-call store's log_tool_call before a summary is read;
\* the calls of the first tool succeed or fail.
LogSummaryCall ==
    \E tool_name \in SummaryTools(tool_calls), status \in DispatcherStatuses :
        LET o == db_log_tool_call(pkg, tool_calls, tool_usage_stats, uuid4(nextId), now,
                                  tool_name, <<>>, PyNone, status, NULL,
                                  IF status = "success" THEN NULL ELSE "boom", NULL)
        IN  /\ Len(tool_calls) < MaxSummaryCalls
            /\ tool_name # "t1" => status = "success"
            /\ tool_calls' = o.calls
            /\ tool_usage_stats' = o.stats
            /\ nextId' = nextId + 1
            /\ last' = [op |-> "log_tool_call", n |-> 0, tool_name |-> tool_name,
                        status |-> status, ret |-> o.ret, exc |-> o.exc]
            /\ UNCHANGED <<memory_system, dispatched, pkg, now, tasks, messages, memories, appointments, reminders>>

\* A caller of the tool-call store's get_tool_usage_summary: the llama
\* package's store reads the three views; the llm package's
\* MCPToolCallDatabase defines no such method and the attribute lookup
\* raises AttributeError.
GetToolUsageSummary ==
    \E days \in SummaryDays, ties \in TieOrders :
        /\ last' = [op |-> "get_tool_usage_summary", n |-> 0, days |-> days,
                    ret |-> IF pkg = "llama"
                            THEN get_tool_usage_summary(tool_calls, tool_usage_stats, now,
                                                        days, ties)
                            ELSE NULL,
                    exc |-> IF pkg = "llama"
                            THEN NULL
                            ELSE "'MCPToolCallDatabase' object has no attribute 'get_tool_usage_summary'"]
        /\ UNCHANGED <<memory_system, dispatched, pkg, now, tasks, nextId, messages, memories, appointments, reminders,
                       tool_calls, tool_usage_stats>>

\* The requests a server has taken into a branch once it has handled one
\* more; a run is followed for MaxCalls of them.
Dispatch(request) ==
    dispatched + (IF branch_calls(get(request, "tool", NULL), parameters_or_empty(request)) = 0
                  THEN 0 ELSE 1)

\* A request handled by the server of mcp_server.py.
HandleMcpRequest ==
    \E rc \in Requests :
        LET h == handle_mcp_request(pkg, DB, now, rc[1], rc[2])
        IN  /\ Dispatch(rc[1]) <= MaxCalls
            /\ InBounds(h.db)
            /\ Commit(h.db)
            /\ dispatched' = Dispatch(rc[1])
            /\ last' = [op |-> "handle_mcp_request", n |-> 1 - last.n,
                        server |-> "mcp_server", request |-> rc[1], client_id |-> rc[2],
                        resp |-> h.resp]
            /\ UNCHANGED <<memory_system, pkg, now, tasks>>

\* A request handled by the server of mcp_server_clean.py.
CleanHandleMcpRequest ==
    \E rc \in Requests :
        LET h == clean_handle_mcp_request(pkg, DB, now, rc[1], rc[2])
        IN  /\ Dispatch(rc[1]) <= MaxCalls
            /\ InBounds(h.db)
            /\ Commit(h.db)
            /\ dispatched' = Dispatch(rc[1])
            /\ last' = [op |-> "handle_mcp_request", n |-> 1 - last.n,
                        server |-> "mcp_server_clean", request |-> rc[1],
                        client_id |-> rc[2], resp |-> h.resp]
            /\ UNCHANGED <<memory_system, pkg, now, tasks>>

\* The failing statements the last request met.
MetBy(l) == get(l, "failing", {})

\* The failing statements of the plan f that a request whose handling ended
\* in db executed.
Met(f, db) == {i \in f : i <= db.stmt}

\* The server a request is sent to.
Serve(server, p, db, t, request, client_id) ==
    IF server = "mcp_server" THEN handle_mcp_request(p, db, t, request, client_id)
    ELSE clean_handle_mcp_request(p, db, t, request, client_id)

\* A request handled by the server of mcp_server.py while the statements of
\* a fault plan fail, each of which the request executes; a run is followed
\* up to its first request that meets a failing statement.
HandleMcpRequestUnderFaults ==
    \E rc \in FaultRequests, f \in FaultPlans :
        LET h == handle_mcp_request(pkg, [DB EXCEPT !.failing = f], now, rc[1], rc[2])
        IN  /\ MetBy(last) = {}
            /\ Met(f, h.db) = f
            /\ Dispatch(rc[1]) <= MaxCalls
            /\ InBounds(h.db)
            /\ Commit(h.db)
            /\ dispatched' = Dispatch(rc[1])
            /\ last' = [op |-> "handle_mcp_request", n |-> 1 - last.n,
                        server |-> "mcp_server", request |-> rc[1], client_id |-> rc[2],
                        resp |-> h.resp, failing |-> f]
            /\ UNCHANGED <<memory_system, pkg, now, tasks>>

\* The same of the server of mcp_server_clean.py.
CleanHandleMcpRequestUnderFaults ==
    \E rc \in FaultRequests, f \in FaultPlans :
        LET h == clean_handle_mcp_request(pkg, [DB EXCEPT !.failing = f], now, rc[1], rc[2])
        IN  /\ MetBy(last) = {}
            /\ Met(f, h.db) = f
            /\ Dispatch(rc[1]) <= MaxCalls
            /\ InBounds(h.db)
            /\ Commit(h.db)
            /\ dispatched' = Dispatch(rc[1])
            /\ last' = [op |-> "handle_mcp_request", n |-> 1 - last.n,
                        server |-> "mcp_server_clean", request |-> rc[1],
                        client_id |-> rc[2], resp |-> h.resp, failing |-> f]
            /\ UNCHANGED <<memory_system, pkg, now, tasks>>

\* A caller of one of the coordinator's four operations, while the domain
\* tables hold fewer than MaxRows rows between them.
CallCoordinator ==
    \E c \in CoordinatorCalls :
        LET r == call(pkg, DB, now, c[1], c[2])
        IN  /\ Len(messages) + Len(memories) + Len(appointments) + Len(reminders) < MaxRows
            /\ InBounds(r.db)
            /\ Commit(r.db)
            /\ last' = [op |-> c[1], n |-> 1 - last.n, a |-> c[2],
                        ret |-> r.ret, exc |-> r.exc]
            /\ UNCHANGED <<memory_system, dispatched, pkg, now, tasks>>

\* DatabaseManager.execute_update and execute_query step by step, on the
\* memories table, each caller on a thread of its own.  get_connection: the
\* call opens a connection of its own.  The row of a write gets a fresh
\* memory_id or that of a stored row; MaxRows writes are followed.  ret is
\* <<>> until the call has a value to return, then <<value>>.
GetConnection(w) ==
    \E c \in PrimitiveCalls, id \in {uuid4(nextId)} \cup {r.memory_id : r \in Rows(memories)} :
        /\ tasks[w].pc = "idle"
        /\ open_connections(tasks[w]) + open_connections(tasks[Other(w)]) < MaxCalls
        /\ c[1] = "execute_query" => id = uuid4(nextId)
        /\ c[1] = "execute_update" => nextId <= MaxRows
        /\ nextId' = IF c[1] = "execute_update" THEN nextId + 1 ELSE nextId
        /\ tasks' = [tasks EXCEPT ![w] =
               [pc |-> "execute", method |-> c[1],
                row |-> IF c[1] = "execute_update"
                        THEN <<MemoryRow(id, now, c[2], NULL, DefaultImportance, <<>>, NULL)>>
                        ELSE <<>>,
                tx |-> <<>>, ret |-> <<>>, exc |-> NULL,
                open |-> open_connections(tasks[w]) + 1]]
        /\ UNCHANGED <<memory_system, dispatched, pkg, now, messages, memories, appointments, reminders,
                       tool_calls, tool_usage_stats, last>>

\* conn.execute(query, params).  A SELECT returns the committed rows.  An
\* INSERT first takes the write lock, and raises when another connection
\* holds a write transaction or the file cannot be written; holding the
\* lock, it raises when the memory_id is that of a stored row (PRIMARY
\* KEY); else the row is written in this connection's transaction.
ConnExecute(w) ==
    \E fails \in BOOLEAN :
        LET k == tasks[w]
            taken == \E r \in Rows(memories) : r.memory_id = k.row[1].memory_id
            locked == tasks[Other(w)].pc # "idle" /\ get(tasks[Other(w)], "tx", <<>>) # <<>>
        IN  /\ k.pc = "execute"
            /\ tasks' = [tasks EXCEPT ![w] =
                   IF k.method = "execute_query"
                   THEN IF fails THEN [k EXCEPT !.pc = "exit", !.exc = StorageError]
                        ELSE [k EXCEPT !.pc = "exit", !.ret = <<memories>>]
                   ELSE IF fails \/ locked
                   THEN [k EXCEPT !.pc = "exit", !.exc = StorageError]
                   ELSE IF taken
                   THEN [k EXCEPT !.pc = "exit",
                                  !.exc = "UNIQUE constraint failed: curated_memories.memory_id"]
                   ELSE [k EXCEPT !.pc = "commit", !.tx = k.row, !.ret = <<Len(memories) + 1>>]]
            /\ UNCHANGED <<memory_system, dispatched, pkg, now, nextId, messages, memories, appointments, reminders,
                           tool_calls, tool_usage_stats, last>>

\* conn.commit() of execute_update: the transaction's rows are stored for
\* every connection to see, or the commit raises and they stay uncommitted.
ConnCommit(w) ==
    \E fails \in BOOLEAN :
        LET k == tasks[w]
        IN  /\ k.pc = "commit"
            /\ IF fails
               THEN /\ tasks' = [tasks EXCEPT ![w].pc = "exit", ![w].exc = StorageError,
                                              ![w].ret = <<>>]
                    /\ UNCHANGED memories
               ELSE /\ tasks' = [tasks EXCEPT ![w].pc = "exit", ![w].tx = <<>>]
                    /\ memories' = memories \o k.tx
            /\ UNCHANGED <<memory_system, dispatched, pkg, now, nextId, messages, appointments, reminders, tool_calls,
                           tool_usage_stats, last>>

\* The with-block ends and the call returns or raises to its caller.
ConnExit(w) ==
    LET k == tasks[w]
    IN  /\ k.pc = "exit"
        /\ memories' = connection_exit(memories, k.tx, k.exc)
        /\ tasks' = [tasks EXCEPT ![w].pc = "idle", ![w].tx = <<>>]
        /\ last' = [op |-> k.method, n |-> 0, w |-> w, row |-> k.row, tx |-> k.tx,
                    ret |-> k.ret, exc |-> k.exc]
        /\ UNCHANGED <<memory_system, dispatched, pkg, now, nextId, messages, appointments, reminders, tool_calls,
                       tool_usage_stats>>

\* The garbage collector finalises a connection no call is using any more,
\* which closes it; nothing else does.
Collect(w) ==
    /\ open_connections(tasks[w]) > (IF tasks[w].pc = "idle" THEN 0 ELSE 1)
    /\ tasks' = [tasks EXCEPT ![w].open = @ - 1]
    /\ UNCHANGED <<memory_system, dispatched, pkg, now, nextId, messages, memories, appointments, reminders,
                   tool_calls, tool_usage_stats, last>>

\* handle_mcp_request step by step, on the caller w; requests are taken one
\* at a time, each when the run has a dispatch left and the stores have room
\* for what it writes.  The
\* request is received: tool and params are read, and a tool without a
\* branch falls through to the unknown-tool return.
Receive(w) ==
    \E rc \in Requests :
        LET tool == get(rc[1], "tool", NULL)
            params == parameters_or_empty(rc[1])
        IN  /\ \A v \in Writers : tasks[v].pc = "idle"
            /\ Dispatch(rc[1]) <= MaxCalls
            /\ InBounds(handle_mcp_request(pkg, DB, now, rc[1], rc[2]).db)
            /\ dispatched' = Dispatch(rc[1])
            /\ tasks' = [tasks EXCEPT ![w] =
                   [pc |-> IF branch_calls(tool, params) = 0 THEN "return" ELSE "try",
                    tool |-> tool, params |-> params, request |-> rc[1],
                    client_id |-> rc[2], i |-> 0, args |-> <<>>, ret |-> NULL,
                    exc |-> NULL, resp |-> Unknown(DB, tool).resp, db0 |-> DB]]
            /\ UNCHANGED <<memory_system, pkg, now, nextId, messages, memories, appointments, reminders,
                           tool_calls, tool_usage_stats, last>>

\* The next coordinator call of the branch is awaited, with the arguments
\* the branch has evaluated for it; params.get on parameters that are no
\* dict, or the call, may raise into the except clause.
CallMethod(w) ==
    LET k == tasks[w]
    IN  /\ k.pc = "try"
        /\ k.i < branch_calls(k.tool, k.params)
        /\ IF ~is_dict(k.params) /\ k.tool # "get_system_health"
           THEN /\ tasks' = [tasks EXCEPT ![w].pc = "except", ![w].exc = no_get]
                /\ UNCHANGED <<nextId, messages, memories, appointments, reminders,
                               tool_calls, tool_usage_stats>>
           ELSE \E r \in {branch_call(pkg, DB, now, k.tool, k.params, k.i + 1)} :
                /\ Commit(r.db)
                /\ tasks' = [tasks EXCEPT
                       ![w].pc = IF r.exc # NULL THEN "except" ELSE "try",
                       ![w].args = branch_args(k.tool, k.params, k.i + 1),
                       ![w].exc = r.exc,
                       ![w].i = IF r.exc # NULL THEN @ ELSE @ + 1,
                       ![w].ret = IF r.exc = NULL /\ k.i = 0 THEN r.ret ELSE @]
        /\ UNCHANGED <<memory_system, dispatched, pkg, now, last>>

\* _log_call is awaited: with status "success" when every call of the branch
\* has returned, from the except clause otherwise.
LogCall(w) ==
    LET k == tasks[w]
        res == branch_result(k.tool, k.ret)
    IN  /\ \/ k.pc = "except"
           \/ k.pc = "try" /\ k.i = branch_calls(k.tool, k.params)
        /\ \E h \in {IF k.pc = "except"
                      THEN Except(pkg, DB, now, k.tool, k.params, k.client_id, k.exc)
                      ELSE Succeed(pkg, DB, now, k.tool, k.params, k.client_id,
                                   res.logged, res.returned)} :
               /\ Commit(h.db)
               /\ tasks' = [tasks EXCEPT ![w].pc = "return", ![w].resp = h.resp]
        /\ UNCHANGED <<memory_system, dispatched, pkg, now, last>>

\* The response is returned to the caller.
Return(w) ==
    /\ tasks[w].pc = "return"
    /\ last' = [op |-> "handle_mcp_request", n |-> 1 - last.n, server |-> "mcp_server",
                request |-> tasks[w].request, client_id |-> tasks[w].client_id,
                resp |-> tasks[w].resp]
    /\ tasks' = [tasks EXCEPT ![w] = Idle]
    /\ UNCHANGED <<memory_system, dispatched, pkg, now, nextId, messages, memories, appointments, reminders,
                   tool_calls, tool_usage_stats>>

\* A writer calls a store operation.
StartCall(w) ==
    \E c \in RaceCalls :
        /\ tasks[w].pc = "idle"
        /\ tasks' = [tasks EXCEPT ![w] = Task("called", c[1], c[2], FALSE, <<>>, FALSE,
                                              NULL, NULL)]
        /\ UNCHANGED <<memory_system, dispatched, pkg, now, nextId, messages, memories, appointments, reminders,
                       tool_calls, tool_usage_stats, last>>

\* The first statement of a call that has one: the duplicate check, an
\* execute_query on a connection of its own.  A hit or an exception ends the
\* call; on a miss the identifier and the timestamp of the row are drawn.
DuplicateCheck(w) ==
    LET k == tasks[w]
        r == call(pkg, DB, now, k.op, k.a)
        row == NewRow(DB, r, k.op)
        early == ~tasks[Other(w)].inserted
    IN  /\ k.pc = "called"
        /\ has_duplicate_check(pkg, k.op, k.a)
        /\ tasks' = [tasks EXCEPT ![w] =
                        IF row = <<>>
                        THEN Task("done", k.op, k.a, early, <<>>, FALSE, r.ret, r.exc)
                        ELSE Task("checked", k.op, k.a, early, row, FALSE, r.ret, NULL)]
        /\ nextId' = r.db.nextId
        /\ UNCHANGED <<memory_system, dispatched, pkg, now, messages, memories, appointments, reminders,
                       tool_calls, tool_usage_stats, last>>

\* The INSERT of a call, an execute_update on a connection of its own: of
\* the row drawn after the duplicate check, or of the call's row when the
\* operation has no check.
Insert(w) ==
    LET k == tasks[w]
        r == call(pkg, DB, now, k.op, k.a)
        row == IF k.pc = "checked" THEN k.row ELSE NewRow(DB, r, k.op)
        db == IF row = <<>> THEN DB
              ELSE [DB EXCEPT ![TableOf(k.op)] = execute_update(@, row[1]),
                              !.nextId = IF k.pc = "checked" THEN @ ELSE r.db.nextId]
    IN  /\ \/ k.pc = "checked"
           \/ k.pc = "called" /\ ~has_duplicate_check(pkg, k.op, k.a)
        /\ Commit(db)
        /\ tasks' = [tasks EXCEPT ![w] =
                        IF k.pc = "checked"
                        THEN Task("done", k.op, k.a, k.early, row, TRUE, k.ret, NULL)
                        ELSE Task("done", k.op, k.a, FALSE, row, row # <<>>, r.ret, r.exc)]
        /\ UNCHANGED <<memory_system, dispatched, pkg, now, last>>

\* A store primitive that gives control back to the event loop while it is
\* awaited.
yields_when_awaited(method) == TRUE

\* Whether "await self.execute_query(...)" or "await
\* self.execute_update(...)" gives control back to the event loop: both
\* bodies run sqlite3 calls and hold no await, so awaiting them suspends
\* nothing.
yields(method) == FALSE

\* Whether the event loop may run a step of the task w: the other task is
\* not in the middle of an operation, or it is suspended in the primitive it
\* awaited last (the duplicate check or the SELECT of the daily row is an
\* execute_query, the INSERT of the record an execute_update).
HasControl(w) ==
    LET pc == tasks[Other(w)].pc
    IN  \/ pc \in {"idle", "called", "done"}
        \/ pc \in {"checked", "read"} /\ yields("execute_query")
        \/ pc = "logged" /\ yields("execute_update")

\* A writer calls log_tool_call.
StartLog(w) ==
    \E a \in LogInputs :
        /\ tasks[w].pc = "idle"
        /\ tasks' = [tasks EXCEPT ![w] = Task("called", "log_tool_call", a, FALSE, <<>>,
                                              FALSE, NULL, NULL)]
        /\ UNCHANGED <<memory_system, dispatched, pkg, now, nextId, messages, memories, appointments, reminders,
                       tool_calls, tool_usage_stats, last>>

\* The first statement of log_tool_call: the INSERT of the record.
InsertRecord(w) ==
    LET k == tasks[w]
        o == db_log_tool_call(pkg, tool_calls, tool_usage_stats, uuid4(nextId), now,
                              k.a[1], <<>>, PyNone, k.a[2], NULL,
                              IF k.a[2] = "success" THEN NULL ELSE "boom", NULL)
    IN  /\ k.pc = "called"
        /\ k.op = "log_tool_call"
        /\ tool_calls' = o.calls
        /\ nextId' = nextId + 1
        /\ tasks' = [tasks EXCEPT ![w] = Task("logged", k.op, k.a, FALSE, <<>>, FALSE,
                                              uuid4(nextId), NULL)]
        /\ UNCHANGED <<memory_system, dispatched, pkg, now, messages, memories, appointments, reminders,
                       tool_usage_stats, last>>

\* The SELECT of _update_tool_stats.
ReadStat(w) ==
    LET k == tasks[w]
    IN  /\ k.pc = "logged"
        /\ tasks' = [tasks EXCEPT ![w] =
                        Task("read", k.op, k.a, ~tasks[Other(w)].inserted,
                             stats_existing(tool_usage_stats, k.a[1], today(now)), FALSE,
                             k.ret, NULL)]
        /\ UNCHANGED <<memory_system, dispatched, pkg, now, nextId, messages, memories, appointments, reminders,
                       tool_calls, tool_usage_stats, last>>

\* The UPDATE or INSERT of _update_tool_stats, chosen by what the SELECT
\* returned.
WriteStat(w) ==
    LET k == tasks[w]
        u == write_tool_stats(pkg, tool_usage_stats, k.row, k.a[1], k.a[2], now)
    IN  /\ k.pc = "read"
        /\ tool_usage_stats' = u.rows
        /\ tasks' = [tasks EXCEPT ![w] =
                        Task("done", k.op, k.a, k.early, k.row, TRUE,
                             IF u.exc = NULL THEN k.ret ELSE NULL, u.exc)]
        /\ UNCHANGED <<memory_system, dispatched, pkg, now, nextId, messages, memories, appointments, reminders,
                       tool_calls, last>>

\* A log_tool_call that runs from start to end while no other call is in
\* progress.
LogAlone ==
    /\ \A w \in Writers : tasks[w].pc = "idle"
    /\ LogToolCall

\* -------------------------------------------------------- specifications
\* The dispatcher: requests to either server.
Next == HandleMcpRequest \/ CleanHandleMcpRequest
Spec == InitServer /\ [][Next]_vars

\* The dispatcher while statements may fail with a storage error.
NextFaults == HandleMcpRequestUnderFaults \/ CleanHandleMcpRequestUnderFaults
SpecFaults == InitServer /\ [][NextFaults]_vars

\* The store primitive under two callers, step by step.
NextPrimitive ==
    \E w \in Writers :
        \/ GetConnection(w)
        \/ ConnExecute(w) \/ ConnCommit(w) \/ ConnExit(w) \/ Collect(w)
SpecPrimitive == Init /\ [][NextPrimitive]_vars

\* The dispatcher of mcp_server.py, step by step, its requests being those of
\* one caller.
NextSteps ==
    LET w == CHOOSE v \in Writers : TRUE
    IN  Receive(w) \/ CallMethod(w) \/ LogCall(w) \/ Return(w)
SpecSteps == InitServer /\ [][NextSteps]_vars

\* Two writers, each calling a store operation once, statement by statement.
NextRace == \E w \in Writers : StartCall(w) \/ DuplicateCheck(w) \/ Insert(w)
SpecRace == Init /\ [][NextRace]_vars

\* The tool-call store under calls that run alone, then under two writers
\* each calling log_tool_call once, statement by statement.
NextLogRace ==
    \/ LogAlone
    \/ \E w \in Writers : StartLog(w) \/ InsertRecord(w) \/ ReadStat(w) \/ WriteStat(w)
SpecLogRace == Init /\ [][NextLogRace]_vars

\* Two tasks of one event loop, each calling a store operation or
\* log_tool_call once: the loop runs a task until it suspends.
NextLoop ==
    \E w \in Writers :
        /\ HasControl(w)
        /\ \/ StartCall(w) \/ StartLog(w)
           \/ tasks[w].op # "log_tool_call" /\ (DuplicateCheck(w) \/ Insert(w))
           \/ InsertRecord(w) \/ ReadStat(w) \/ WriteStat(w)
SpecLoop == Init /\ [][NextLoop]_vars

\* The tool-call store under calls of log_tool_call that follow one
\* another, statement by statement, as time passes; _update_tool_stats
\* reads the date once, before its SELECT.
NextLogSteps ==
    \/ \E w \in Writers :
          /\ tasks[Other(w)].pc \in {"idle", "done"}
          /\ StartLog(w) \/ InsertRecord(w) \/ ReadStat(w) \/ WriteStat(w)
    \/ (\A w \in Writers : tasks[w].pc # "read") /\ Tick
SpecLogSteps == Init /\ [][NextLogSteps]_vars

\* The coordinator under a caller of its four operations.
SpecCoordinator == InitServer /\ [][CallCoordinator]_vars

\* The coordinator under a caller of its four operations, as time passes.
NextDedup == CallCoordinator \/ Tick
SpecDedup == Init /\ [][NextDedup]_vars

\* The tool-call store under callers that log calls and read the usage
\* summary; time passes between the first calls.
NextSummary ==
    \/ LogSummaryCall
    \/ GetToolUsageSummary
    \/ Len(tool_calls) \in 1..(SmallScope - 1) /\ Tick
SpecSummary == Init /\ [][NextSummary]_vars

\* The memory store under its callers.
NextMemory == CreateMemory
SpecMemory == Init /\ [][NextMemory]_vars

\* The appointments of the schedule store under their callers.
NextAppointments == CreateAppointment
SpecAppointments == Init /\ [][NextAppointments]_vars

\* The reminders of the schedule store under their callers.
NextReminders == CreateReminder
SpecReminders == Init /\ [][NextReminders]_vars

\* The tool-call store under its callers, as time passes.
NextTelemetry == LogToolCall \/ Tick
SpecTelemetry == Init /\ [][NextTelemetry]_vars

\* The tool-call store under its writers and its readers, as time passes.
NextHistory == LogToolCall \/ GetToolCallHistory \/ Tick
SpecHistory == Init /\ [][NextHistory]_vars

\* The conversation store under its callers, as time passes.
NextConversation == StoreConversation \/ Tick
SpecConversation == Init /\ [][NextConversation]_vars

\* ----------------------------------------------------------------- claims
\* The tools of the dispatcher's table.
SupportedTools ==
    {"create_memory", "store_memory", "search_memories", "get_system_health",
     "get_tool_call_history", "store_conversation"}

\* The tool a handled request names (NULL when it names none).
ToolOf(l) == get(l.request, "tool", NULL)

\* The rows of a table whose key columns have the given values.
RowsWithKey(rows, columns, key) ==
    SelectSeq(rows, LAMBDA r : [i \in 1..Len(columns) |-> r[columns[i]]] = key)

\* No two rows of the table agree on the key columns.
NoTwoRowsShare(rows, columns) ==
    \A i, j \in 1..Len(rows) :
        i # j => \E k \in 1..Len(columns) : rows[i][columns[k]] # rows[j][columns[k]]

MemoryKey == <<"content", "memory_type", "source_conversation_id">>
AppointmentKey == <<"title", "scheduled_datetime", "location", "source_conversation_id">>
ReminderKey == <<"content", "due_datetime", "source_conversation_id">>

\* A request to mcp_server.py's handle_mcp_request whose tool is a supported
\* name appends exactly one ToolCallRecord, whether the coordinator call
\* succeeded or raised; the records already stored stay as they were.
OneRecordPerSupportedRequest ==
    (/\ last'.n # last.n
     /\ last'.server = "mcp_server"
     /\ ToolOf(last') \in SupportedTools)
    => /\ Len(tool_calls') = Len(tool_calls) + 1
       /\ SubSeq(tool_calls', 1, Len(tool_calls)) = tool_calls
       /\ tool_calls'[Len(tool_calls')].tool_name = ToolOf(last')

\* C1: every request to mcp_server.py's handle_mcp_request whose tool is a
\* supported name appends exactly one ToolCallRecord, whether the coordinator
\* call succeeded or raised; the records already stored stay as they were.
C1_OneRecordPerSupportedRequest == [][OneRecordPerSupportedRequest]_vars

\* C1 under a coordinator whose log_tool_call takes the arguments in the
\* order _log_call passes them.
C1_WithLogCallOrder ==
    [][memory_system = "with_log_call_order" => OneRecordPerSupportedRequest]_vars

\* Under the coordinator class as kept a create_memory request was answered
\* success, its memory is stored, and no record was appended.
C1_NoRecordReached ==
    /\ memory_system = "PersistentAIMemorySystem"
    /\ last.op = "handle_mcp_request"
    /\ last.server = "mcp_server"
    /\ ToolOf(last) = "create_memory"
    /\ last.resp.status = "success"
    /\ Len(memories) = 1
    /\ tool_calls = <<>>

\* C2: a request whose tool is not in the supported table is answered
\* {status: "error", error: "Unknown tool: <name>"} by either server, and no
\* store changes: no record, no daily row, no coordinator operation.
C2_UnknownToolTouchesNothing ==
    [][ (/\ last'.n # last.n
         /\ ToolOf(last') \notin SupportedTools)
        => /\ last'.resp = [status |-> "error",
                            error |-> "Unknown tool: " \o
                                      (IF ToolOf(last') = NULL THEN "None"
                                       ELSE ToolOf(last'))]
           /\ UNCHANGED <<messages, memories, appointments, reminders, tool_calls,
                          tool_usage_stats, nextId>> ]_vars

\* C2's case: with two records stored, not_a_tool was asked of the clean
\* server.
C2_Witness ==
    /\ last.op = "handle_mcp_request"
    /\ last.server = "mcp_server_clean"
    /\ ToolOf(last) = "not_a_tool"
    /\ last.resp.error = "Unknown tool: not_a_tool"
    /\ Len(tool_calls) = 2
    /\ Len(tool_usage_stats) >= 1

\* C3: create_memory called twice in sequence with the same (content,
\* non-null memory_type, source_conversation_id) returns the same id both
\* times, and the store then holds exactly one row with that triple.
C3_SameMemorySameId ==
    [][ (/\ last.op = "create_memory"
         /\ last'.n # last.n
         /\ last'.key = last.key
         /\ last.key[2] # NULL)
        => /\ last'.ret = last.ret
           /\ Len(RowsWithKey(memories', MemoryKey, last.key)) = 1 ]_vars

\* C4: after any sequence of create_memory calls of the llama package, null
\* memory_type and null source included, no two rows share the (content,
\* memory_type, source_conversation_id) triple.
C4_NoTwoMemoriesShareTriple ==
    pkg = "llama" => NoTwoRowsShare(memories, MemoryKey)

\* C5: store_message called again with the same content, role and
\* caller-supplied session_id less than an hour after the first call returns
\* duplicate true with the first call's message_id, and inserts no row.
C5_DuplicateWithinHour ==
    [][ (/\ last.op = "store_message"
         /\ last'.n # last.n
         /\ last'.key = last.key
         /\ last.key[3] # NULL
         /\ now - last.at < WindowMinutes)
        => /\ last.exc = NULL
           /\ last'.exc = NULL
           /\ "duplicate" \in DOMAIN last'.ret
           /\ last'.ret.duplicate = TRUE
           /\ last'.ret.message_id = last.ret.message_id
           /\ messages' = messages ]_vars

\* C6: in the llama package, store_message called with the same (content,
\* role, session_id) more than an hour after the earlier call inserts a new
\* row under a new message id and returns duplicate false.
C6_NoDuplicateAfterHour ==
    [][ (/\ pkg = "llama"
         /\ last.op = "store_message"
         /\ last'.n # last.n
         /\ last'.key = last.key
         /\ now - last.at > WindowMinutes)
        => /\ last'.exc = NULL
           /\ last'.ret.duplicate = FALSE
           /\ Len(messages') = Len(messages) + 1
           /\ messages'[Len(messages')].message_id = last'.ret.message_id
           /\ \A i \in 1..Len(messages) :
                  messages[i].message_id # last'.ret.message_id ]_vars

\* C7: create_appointment called twice in sequence with identical title,
\* scheduled_datetime, location and source_conversation_id (location and
\* source possibly null) returns the first call's id the second time, and
\* the store then holds exactly one row with that key.
C7_SameAppointmentSameId ==
    [][ (/\ last.op = "create_appointment"
         /\ last'.n # last.n
         /\ last'.key = last.key)
        => /\ last'.ret = last.ret
           /\ Len(RowsWithKey(appointments', AppointmentKey, last.key)) = 1 ]_vars

\* C8 (rows): no two reminder rows share (content, due_datetime,
\* source_conversation_id).
C8_NoTwoRemindersShareKey == NoTwoRowsShare(reminders, ReminderKey)

\* C8: after any sequence of create_reminder calls no two rows share the
\* key, and a call whose key matches an existing row returns that row's id
\* and adds nothing, whatever priority_level it passes.
C8_ReminderDedup ==
    [][ /\ C8_NoTwoRemindersShareKey'
        /\ (/\ last'.n # last.n
            /\ last'.op = "create_reminder"
            /\ RowsWithKey(reminders, ReminderKey, last'.key) # <<>>)
           => /\ last'.ret = RowsWithKey(reminders, ReminderKey, last'.key)[1].reminder_id
              /\ reminders' = reminders ]_vars

\* C8's case: the one reminder was written with priority 5, and the last
\* call passed its key with priority 1 and got its id.
C8_Witness ==
    /\ last.op = "create_reminder"
    /\ last.priority_level = 1
    /\ Len(reminders) = 1
    /\ reminders[1].priority_level = 5
    /\ last.key = <<reminders[1].content, reminders[1].due_datetime,
                    reminders[1].source_conversation_id>>
    /\ last.ret = reminders[1].reminder_id

\* C9: in every state of the tool-call store, every ToolUsageStat row has
\* call_count = success_count + failure_count, whichever of the dispatcher's
\* statuses the calls were recorded with.
C9_CountsAddUp ==
    \A i \in 1..Len(tool_usage_stats) :
        tool_usage_stats[i].call_count =
            tool_usage_stats[i].success_count + tool_usage_stats[i].failure_count

\* The daily rows of a tool on a day.
StatsOf(stats, tool_name, date) ==
    SelectSeq(stats, LAMBDA r : r.tool_name = tool_name /\ r.date = date)

\* C10: a call recorded with status success leaves one row for (tool, day):
\* the first call of the day inserts it with call_count 1, success_count 1,
\* failure_count 0, and each later one adds exactly 1 to call_count and to
\* success_count; so N successful calls and no other give N, N, 0.
C10_CountsSuccessfulCalls ==
    [][ (/\ last'.n # last.n
         /\ last'.op = "log_tool_call"
         /\ last'.status = "success")
        => LET before == StatsOf(tool_usage_stats, last'.tool_name, today(now))
               after == StatsOf(tool_usage_stats', last'.tool_name, today(now))
           IN  /\ Len(after) = 1
               /\ after[1].call_count =
                      IF before = <<>> THEN 1 ELSE before[1].call_count + 1
               /\ after[1].success_count =
                      IF before = <<>> THEN 1 ELSE before[1].success_count + 1
               /\ after[1].failure_count =
                      IF before = <<>> THEN 0 ELSE before[1].failure_count ]_vars

\* The tools a server's handle_mcp_request has a branch for.
BranchesOf(server) ==
    IF server = "mcp_server" THEN SupportedTools
    ELSE {"create_memory", "store_memory", "get_tool_call_history"}

\* The parameters a handled request carries ({} when it carries none).
ParamsOf(l) == parameters_or_empty(l.request)

\* C11: when the coordinator call of a supported tool raises, the response
\* is {status: "error", error: <the exception's message>}, the record
\* appended for the request has status "failure" and that message as its
\* error_message, and every stored record's status is success or failure.
C11_FailureRecorded ==
    [][ (/\ last'.n # last.n
         /\ ToolOf(last') \in BranchesOf(last'.server)
         /\ is_dict(ParamsOf(last'))
         /\ last'.resp.status = "error")
        => /\ DOMAIN last'.resp = {"status", "error"}
           /\ Len(tool_calls') = Len(tool_calls) + 1
           /\ tool_calls'[Len(tool_calls')].status = "failure"
           /\ tool_calls'[Len(tool_calls')].error_message = last'.resp.error
           /\ \A i \in 1..Len(tool_calls') :
                  tool_calls'[i].status \in {"success", "failure"} ]_vars

\* The statements of log_tool_call in a request, base being how its handling
\* ends when no statement fails: its last three when a record is appended,
\* none when log_tool_call is not called or raises before its INSERT.
TelemetryStatements(base) ==
    IF Len(base.db.tool_calls) > Len(tool_calls)
    THEN (base.db.stmt - 2)..base.db.stmt
    ELSE {}

\* C12: a failure while recording telemetry never changes the response: a
\* supported-tool request whose failing statements are all statements of
\* log_tool_call is answered exactly as the same request is answered from
\* the same stores when no statement fails, and nothing is raised.
C12_TelemetryFailureKeepsResponse ==
    [][ LET base == Serve(last'.server, pkg, DB, now, last'.request, last'.client_id)
        IN  (/\ last'.n # last.n
             /\ ToolOf(last') \in BranchesOf(last'.server)
             /\ MetBy(last') # {}
             /\ MetBy(last') \subseteq TelemetryStatements(base))
            => /\ last'.resp = base.resp
               /\ "status" \in DOMAIN last'.resp ]_vars

\* C12's case: in the llm package the INSERT of the record failed after
\* create_memory had stored the memory; the answer is the memory's id and no
\* record was written.
C12_Witness ==
    /\ pkg = "llm"
    /\ last.op = "handle_mcp_request"
    /\ ToolOf(last) = "create_memory"
    /\ is_dict(ParamsOf(last))
    /\ MetBy(last) = {2}
    /\ last.resp.status = "success"
    /\ Len(memories) = 1
    /\ last.resp.result = PyStr(memories[1].memory_id)
    /\ tool_calls = <<>>

\* C13: whatever the request map (its tool supported, unknown or absent, its
\* parameters a dict or not) and whatever the coordinator or the telemetry
\* store raises, handle_mcp_request returns {status: "success", result: ...}
\* or {status: "error", error: <string>}; no exception escapes it.
C13_WellFormedEnvelope ==
    last.op = "handle_mcp_request"
    => \/ /\ DOMAIN last.resp = {"status", "result"}
          /\ last.resp.status = "success"
       \/ /\ DOMAIN last.resp = {"status", "error"}
          /\ last.resp.status = "error"
          /\ last.resp.error \in STRING
          /\ last.resp.error # NULL

\* C13's case: the store operation of a create_memory request failed, then
\* the INSERT of its record failed too; the answer is the error envelope
\* with the first failure's message and nothing was stored.
C13_Witness ==
    /\ last.op = "handle_mcp_request"
    /\ ToolOf(last) = "create_memory"
    /\ is_dict(ParamsOf(last))
    /\ MetBy(last) = {1, 2}
    /\ last.resp = [status |-> "error", error |-> StorageError]
    /\ memories = <<>>
    /\ tool_calls = <<>>

\* The statements of the store operations in such a request: all but those
\* of log_tool_call.
StoreStatements(base) == (1..base.db.stmt) \ TelemetryStatements(base)

Matching(tool_name) ==
    IF tool_name = NULL THEN tool_calls
    ELSE SelectSeq(tool_calls, LAMBDA r : r.tool_name = tool_name)

\* Two rows hold the same record: the same call_id and the same text in
\* every column (a column holds NULL or a value of its type).
SameRecord(a, b) == a.call_id = b.call_id /\ ToString(a) = ToString(b)

\* The position, among the stored records, of the record a row was read
\* from: the records are appended, so a greater position is a later call.
LoggedAt(stored, r) == CHOOSE k \in 1..Len(stored) : stored[k].call_id = r.call_id

\* C15: get_tool_call_history(limit=K), K a number of rows (K >= 0), of the
\* store that defines it (the llama package's) returns min(K, number of
\* stored records) rows (of the records with that name when tool_name is
\* given); they are stored records, each once, none older than a record left
\* out, in non-increasing timestamp order, a record logged later in the same
\* minute coming before one logged earlier; with a filter every row has that
\* name.  The llm package's store has no such method: there the call raises
\* AttributeError and returns nothing.
C15_MostRecentFirst ==
    /\ last.op = "get_tool_call_history" => (last.exc = NULL <=> pkg = "llama")
    /\ (last.op = "get_tool_call_history" /\ last.exc = NULL)
    => LET rows == last.ret
           stored == Matching(last.tool_name)
           Returned(r) == \E i \in 1..Len(rows) : rows[i].call_id = r.call_id
       IN  /\ last.limit >= 0
              => Len(rows) = IF last.limit < Len(stored) THEN last.limit ELSE Len(stored)
           /\ \A i \in 1..Len(rows) : \E k \in 1..Len(stored) : SameRecord(stored[k], rows[i])
           /\ \A i, j \in 1..Len(rows) : i # j => rows[i].call_id # rows[j].call_id
           /\ \A i, j \in 1..Len(rows) : i < j => TextGE(rows[i].timestamp, rows[j].timestamp)
           /\ \A i, j \in 1..Len(rows) :
                  i < j => LoggedAt(stored, rows[i]) > LoggedAt(stored, rows[j])
           /\ \A k \in 1..Len(stored) :
                  ~Returned(stored[k])
                  => \A i \in 1..Len(rows) :
                         /\ TextGE(rows[i].timestamp, stored[k].timestamp)
                         /\ LoggedAt(stored, rows[i]) > k
           /\ last.tool_name # NULL
              => \A i \in 1..Len(rows) : rows[i].tool_name = last.tool_name

\* C15's case: two records of different instants are stored and a read of
\* limit 1 without filter returned the later one alone.
C15_Witness ==
    /\ last.op = "get_tool_call_history"
    /\ last.exc = NULL
    /\ last.tool_name = NULL
    /\ last.limit = 1
    /\ Len(tool_calls) = 2
    /\ tool_calls[1].timestamp # tool_calls[2].timestamp
    /\ last.ret = <<tool_calls[2]>>

\* C16: after a create_memory request handled by the shim returned status
\* success, a following get_tool_call_history request returns status success
\* with a history that contains the record of that create_memory call, with
\* its tool name and client_id (no statement failing in either request).
C16_RecordObservable ==
    [][ (/\ last.op = "handle_mcp_request"
         /\ last.server = "mcp_server_clean"
         /\ ToolOf(last) = "create_memory"
         /\ last.resp.status = "success"
         /\ MetBy(last) = {}
         /\ last'.n # last.n
         /\ last'.server = "mcp_server_clean"
         /\ ToolOf(last') = "get_tool_call_history"
         /\ MetBy(last') = {})
        => /\ last'.resp.status = "success"
           /\ \E i \in 1..Len(last'.resp.result.history) :
                  /\ last'.resp.result.history[i].tool_name = "create_memory"
                  /\ last'.resp.result.history[i].client_id = last.client_id ]_vars

\* C17: ToolCallRecords are append-only: in every step each record already
\* in the tool-call store stays in it, at its place and with all its fields
\* unchanged; no operation updates or deletes a record (a history read
\* leaves the store as it is, whether it returns rows or, in the llm
\* package, raises).
C17_AppendOnly ==
    [][ /\ Len(tool_calls') >= Len(tool_calls)
        /\ SubSeq(tool_calls', 1, Len(tool_calls)) = tool_calls ]_vars

\* C17's case: a second call of the same tool was logged in the llm package,
\* its daily row was updated to two calls, and both records are stored.
C17_Witness ==
    /\ pkg = "llm"
    /\ last.op = "log_tool_call"
    /\ Len(tool_calls) = 2
    /\ tool_calls[1].tool_name = tool_calls[2].tool_name
    /\ tool_calls[1].call_id # tool_calls[2].call_id
    /\ \E i \in 1..Len(tool_usage_stats) :
           /\ tool_usage_stats[i].tool_name = tool_calls[1].tool_name
           /\ tool_usage_stats[i].call_count = 2

\* The key columns of the table a create operation writes.
KeyOf(op) ==
    CASE op = "create_memory" -> MemoryKey
      [] op = "create_appointment" -> AppointmentKey
      [] OTHER -> ReminderKey

\* Both writers called the operation with the same arguments, each ran its
\* duplicate check before the other's INSERT, and both calls have ended.
RacedOn(op) ==
    \A w \in Writers :
        /\ tasks[w].pc = "done"
        /\ tasks[w].op = op
        /\ tasks[w].a = tasks[Other(w)].a
        /\ tasks[w].early

\* C18: when two create_memory calls (likewise create_appointment,
\* create_reminder, store_message) with the same dedup key both run their
\* duplicate check before either inserts, both insert, and the table then
\* holds two rows with that key.
C18_BothInsertAfterBothChecked ==
    \A c \in RaceCalls :
        (has_duplicate_check(pkg, c[1], c[2]) /\ RacedOn(c[1]))
        => /\ \A w \in Writers : tasks[w].inserted
           /\ c[1] # "store_message" => ~NoTwoRowsShare(DB[TableOf(c[1])], KeyOf(c[1]))

\* Both writers called log_tool_call for the tool, each read the daily row
\* before the other wrote it, and both calls have ended.
LogRacedOn(tool_name) ==
    \A w \in Writers :
        /\ tasks[w].pc = "done"
        /\ tasks[w].op = "log_tool_call"
        /\ tasks[w].a[1] = tool_name
        /\ tasks[w].early

\* The stored records of a tool (all of one day: the clock stands still
\* while the writers race).
RecordsOf(tool_name) == SelectSeq(tool_calls, LAMBDA r : r.tool_name = tool_name)

\* The message of the sqlite3.IntegrityError of a second INSERT of a daily row.
UniqueFailed == "UNIQUE constraint failed: tool_usage_stats.tool_name, tool_usage_stats.date"

\* C19 as stated: when two log_tool_call calls for the same tool on the same
\* day both read the daily row before either writes it, the row afterwards
\* counts fewer calls than there are records of that tool and day, whether
\* the row was absent or present when they read.
C19_RaceLosesACall ==
    \A a \in LogInputs :
        (pkg = "llm" /\ LogRacedOn(a[1]))
        => LET row == StatsOf(tool_usage_stats, a[1], today(now))
           IN  /\ Len(row) = 1
               /\ row[1].call_count < Len(RecordsOf(a[1]))

\* C19, amended: when both calls read the daily row before either writes it
\* and the row was absent, both INSERT, the primary key refuses the second,
\* which raises, and the row counts one call fewer than the records; when
\* the row was present both UPDATEs increment it where it stands, the row
\* gains two and counts every record: no call is lost.
C19_RaceLosesOnlyTheInsert ==
    \A a \in LogInputs :
        (pkg = "llm" /\ LogRacedOn(a[1]))
        => LET row == StatsOf(tool_usage_stats, a[1], today(now))
               seen == tasks[CHOOSE w \in Writers : TRUE].row
           IN  /\ Len(row) = 1
               /\ \A w \in Writers : tasks[w].row = seen
               /\ IF seen = <<>>
                  THEN /\ \E w \in Writers : /\ tasks[w].exc = UniqueFailed
                                             /\ tasks[Other(w)].exc = NULL
                       /\ row[1].call_count = 1
                       /\ Len(RecordsOf(a[1])) = 2
                  ELSE /\ \A w \in Writers : tasks[w].exc = NULL
                       /\ row[1].call_count = seen[1].call_count + 2
                       /\ row[1].call_count = Len(RecordsOf(a[1]))

\* C19's case: in the llm package two calls for create_memory both found no
\* daily row; two records are stored, one call raised, the row counts one.
C19_Witness ==
    /\ pkg = "llm"
    /\ LogRacedOn("create_memory")
    /\ \A w \in Writers : tasks[w].row = <<>>
    /\ \E w \in Writers : tasks[w].exc = UniqueFailed
    /\ Len(RecordsOf("create_memory")) = 2
    /\ StatsOf(tool_usage_stats, "create_memory", today(now))[1].call_count = 1

\* C20: the writes of one request are independent: in a store_conversation
\* request with a user message and an assistant response the user message
\* is written first (it is the row before the assistant's), and when a later
\* write of the request fails (the assistant message, or a statement of the
\* telemetry) the user message stays stored; no stored row is taken back.
C20_UserMessageStays ==
    [][ (/\ last'.n # last.n
         /\ last'.server = "mcp_server"
         /\ ToolOf(last') = "store_conversation"
         /\ Truthy(get(ParamsOf(last'), "assistant_response", NULL))
         /\ 1 \notin MetBy(last'))
        => LET k == Len(messages)
           IN  /\ SubSeq(messages', 1, k) = messages
               /\ Len(messages') = IF 2 \in MetBy(last') THEN k + 1 ELSE k + 2
               /\ messages'[k + 1].role = "user"
               /\ messages'[k + 1].content = ParamsOf(last').user_message
               /\ 2 \notin MetBy(last')
                  => /\ messages'[k + 2].role = "assistant"
                     /\ messages'[k + 2].content = ParamsOf(last').assistant_response
               /\ last'.resp.status = IF 2 \in MetBy(last') THEN "error" ELSE "success" ]_vars

\* C20's case: the INSERT of the assistant message failed; the answer is the
\* error and the user message is the one stored message.
C20_Witness ==
    /\ last.op = "handle_mcp_request"
    /\ last.server = "mcp_server"
    /\ ToolOf(last) = "store_conversation"
    /\ MetBy(last) = {2}
    /\ last.resp = [status |-> "error", error |-> StorageError]
    /\ Len(messages) = 1
    /\ messages[1].role = "user"
    /\ messages[1].content = "hi"

\* The stored user messages with the content of a store_conversation
\* request.
UserMessagesOf(l) ==
    SelectSeq(messages,
              LAMBDA r : /\ r.role = "user"
                         /\ r.content = Or(get(ParamsOf(l), "user_message", NULL),
                                           get(ParamsOf(l), "content", NULL)))

\* C21: every store_conversation response with status success carries a
\* conversation_id that is not null and is the conversation_id of a stored
\* user message with the request's content.
C21_ConversationIdReturned ==
    (/\ last.op = "handle_mcp_request"
     /\ last.server = "mcp_server"
     /\ ToolOf(last) = "store_conversation"
     /\ last.resp.status = "success")
    => \E i \in 1..Len(UserMessagesOf(last)) :
           /\ UserMessagesOf(last)[i].conversation_id # NULL
           /\ last.resp.result =
                  PyDict(<<<<"conversation_id",
                             Quote(UserMessagesOf(last)[i].conversation_id)>>>>)

\* C21 in the llama package alone, whose store_message generates the
\* conversation_id the caller omitted.
C21_LlamaConversationIdReturned ==
    pkg = "llama" => C21_ConversationIdReturned

\* C22: a request that omits optional parameters is not rejected for that
\* and gets the defaults.  Whenever a branch of handle_mcp_request makes its
\* call: create_memory / store_memory passes importance_level 5 when that is
\* omitted and None for an omitted memory_type, tags and
\* source_conversation_id, the call raises nothing, and the row it inserts
\* holds 5 and NULL in those columns; search_memories without limit passes
\* the query and 10, and raises only when the coordinator has no such
\* method; get_tool_call_history without limit takes 50 for its read and
\* raises nothing.  A request whose call raised nothing is answered success.
C22_OmittedGetDefaults ==
    [][ \A w \in Writers :
          LET k == tasks[w]
              k2 == tasks'[w]
              ps == k.params
              n == Len(memories)
          IN  /\ (/\ k.pc = "try"
                  /\ k2.pc = "except" \/ k2.i = k.i + 1
                  /\ is_dict(ps))
                 => /\ k.tool \in {"create_memory", "store_memory"}
                       => /\ k2.exc = NULL
                          /\ "importance_level" \notin DOMAIN ps => k2.args[3] = 5
                          /\ "memory_type" \notin DOMAIN ps => k2.args[2] = NULL
                          /\ "tags" \notin DOMAIN ps => is_none(k2.args[4])
                          /\ "source_conversation_id" \notin DOMAIN ps => k2.args[5] = NULL
                          /\ Len(memories') = n + 1
                             => /\ "importance_level" \notin DOMAIN ps
                                   => memories'[n + 1].importance_level = 5
                                /\ "memory_type" \notin DOMAIN ps
                                   => memories'[n + 1].memory_type = NULL
                                /\ "tags" \notin DOMAIN ps
                                   => memories'[n + 1].tags = NULL
                                /\ "source_conversation_id" \notin DOMAIN ps
                                   => memories'[n + 1].source_conversation_id = NULL
                    /\ (k.tool = "search_memories" /\ "limit" \notin DOMAIN ps)
                       => /\ k2.args = <<get(ps, "query", NULL), 10>>
                          /\ k2.exc = IF hasattr("search_memories") THEN NULL
                                      ELSE not_available("search_memories")
                    /\ (k.tool = "get_tool_call_history" /\ "limit" \notin DOMAIN ps)
                       => /\ k2.args = <<50>>
                          /\ k2.exc = NULL
              /\ (/\ k.pc = "return"
                  /\ last'.n # last.n
                  /\ k.tool \in SupportedTools
                  /\ k.exc = NULL)
                 => last'.resp.status = "success" ]_vars

\* C22's case: a create_memory request without importance_level, tags and
\* source_conversation_id was answered success with the id of a stored row,
\* which has importance_level 5 and NULL tags and source; and the call of a
\* search_memories request without limit, made with the query and 10, has
\* returned.
C22_Witness ==
    /\ last.op = "handle_mcp_request"
    /\ ToolOf(last) = "create_memory"
    /\ DOMAIN ParamsOf(last) = {"content", "memory_type"}
    /\ last.resp.status = "success"
    /\ \E i \in 1..Len(memories) :
           /\ PyStr(memories[i].memory_id) = last.resp.result
           /\ memories[i].importance_level = 5
           /\ memories[i].tags = NULL
           /\ memories[i].source_conversation_id = NULL
    /\ \E w \in Writers :
           /\ tasks[w].pc = "try"
           /\ tasks[w].tool = "search_memories"
           /\ "limit" \notin DOMAIN tasks[w].params
           /\ tasks[w].i = 1
           /\ tasks[w].exc = NULL
           /\ tasks[w].args = <<"x", 10>>

\* The step-by-step dispatcher and handle_mcp_request agree: the response
\* returned and the stores left are those of the handler run as a whole on
\* the stores the request found.
StepsAgree ==
    \A w \in Writers :
        tasks[w].pc = "return"
        => LET h == handle_mcp_request(pkg, tasks[w].db0, now, tasks[w].request,
                                       tasks[w].client_id)
           IN  Handled(DB, tasks[w].resp) = Handled([h.db EXCEPT !.stmt = 0], h.resp)

\* The most steps a request being handled has yet to take: its remaining
\* calls, the telemetry write, the return.
StepsLeft(k) ==
    CASE k.pc = "try" -> branch_calls(k.tool, k.params) - k.i + 2
      [] k.pc = "except" -> 2
      [] k.pc = "return" -> 1
      [] OTHER -> 0

\* What the _log_call of a request whose calls are done is given as the
\* result: None from the except clause, else what the branch logs.
LoggedResult(k) ==
    IF k.exc # NULL THEN PyNone ELSE branch_result(k.tool, k.ret).logged

\* C23: the steps of a request run in order and once.  While a request is
\* being handled: once its telemetry record is written or a call has raised,
\* no domain store changes any more (no coordinator operation after the
\* telemetry write or after a failure, no retry); the telemetry record is
\* written once, when every coordinator call of the branch has returned or
\* one has raised, and a raise goes at once to _log_call, which records it
\* as an error with the exception's message when the coordinator has
\* log_tool_call; the response is returned after _log_call, with the record
\* of a supported tool written when log_tool_call reaches its INSERT, is an
\* error exactly when a call raised or the
\* tool is unknown, and ends the request; and a request being handled can
\* always take its next step, of which it has one fewer left after each, so
\* it ends in its response.
C23_StepOrder ==
    [][ \A w \in Writers :
             tasks[w].pc # "idle"
             => LET k == tasks[w]
                    written == Len(tool_calls) - Len(k.db0.tool_calls)
                IN  /\ ENABLED (CallMethod(w) \/ LogCall(w) \/ Return(w))
                    /\ StepsLeft(tasks'[w]) < StepsLeft(k)
                    /\ (written > 0 \/ k.pc = "return" \/ k.exc # NULL)
                       => UNCHANGED <<messages, memories, appointments, reminders>>
                    /\ tool_calls' # tool_calls
                       => /\ written = 0
                          /\ Len(tool_calls') = Len(tool_calls) + 1
                          /\ SubSeq(tool_calls', 1, Len(tool_calls)) = tool_calls
                          /\ k.exc # NULL \/ k.i = branch_calls(k.tool, k.params)
                          /\ tool_calls'[Len(tool_calls')].error_message = k.exc
                          /\ tool_calls'[Len(tool_calls')].status =
                                 IF k.exc # NULL THEN "error" ELSE "success"
                          /\ tasks'[w].resp.status = tool_calls'[Len(tool_calls')].status
                    /\ k.pc = "except"
                       => /\ tasks'[w].pc = "return"
                          /\ has_log_tool_call => tool_calls' # tool_calls
                    /\ (k.exc # NULL /\ has_log_tool_call)
                       => tool_calls' # tool_calls \/ last'.n # last.n
                    /\ last'.n # last.n
                       => /\ written = IF /\ k.tool \in SupportedTools
                                          /\ appends_record(LoggedResult(k))
                                       THEN 1 ELSE 0
                          /\ last'.resp = k.resp
                          /\ last'.resp.status =
                                 IF k.exc # NULL \/ k.tool \notin SupportedTools
                                 THEN "error" ELSE "success"
                          /\ tasks'[w].pc = "idle" ]_vars

\* C23's case: the call of a store_conversation request raised; the record
\* of the failure is written, the error response is about to be returned,
\* and no message was stored.
C23_Witness ==
    \E w \in Writers :
        /\ tasks[w].pc = "return"
        /\ tasks[w].tool = "store_conversation"
        /\ tasks[w].exc # NULL
        /\ tasks[w].resp = [status |-> "error", error |-> tasks[w].exc]
        /\ Len(tool_calls) = Len(tasks[w].db0.tool_calls) + 1
        /\ tool_calls[Len(tool_calls)].status = "error"
        /\ messages = tasks[w].db0.messages

\* What the owning store's operation does with a coordinator call's
\* arguments, on the store as it is.
OwningStore(op, a) ==
    CASE op = "create_memory" ->
             db_create_memory(pkg, memories, uuid4(nextId), now, a[1], a[2], a[4], a[5], a[3])
      [] op = "create_appointment" ->
             db_create_appointment(pkg, appointments, uuid4(nextId), now, a[1], a[2], a[5],
                                   a[3], a[4])
      [] op = "create_reminder" ->
             db_create_reminder(pkg, reminders, uuid4(nextId), now, a[1], a[2], a[4], a[3])
      [] OTHER -> db_store_message(pkg, messages, nextId, now, a[1], a[2], a[3], a[4], <<>>)

\* C24: each coordinator operation is a forward and nothing more.  What a
\* call of the coordinator's create_memory, store_conversation,
\* create_appointment or create_reminder returns, raises and leaves in the
\* owning table is what the owning store's operation returns, raises and
\* leaves for the same arguments; the call changes no table of another
\* store; and a telemetry write of the dispatcher changes the tool-call store
\* alone (by one record, when the coordinator has log_tool_call).
C24_ForwardOnly ==
    [][ last'.n # last.n
        => LET op == last'.op
               o == OwningStore(op, last'.a)
           IN  /\ <<last'.ret, last'.exc>> = <<o.ret, o.exc>>
               /\ op = "create_memory"
                  => /\ memories' = o.rows
                     /\ UNCHANGED <<messages, appointments, reminders, tool_calls,
                                    tool_usage_stats>>
               /\ op = "store_message"
                  => /\ messages' = o.rows
                     /\ UNCHANGED <<memories, appointments, reminders, tool_calls,
                                    tool_usage_stats>>
               /\ op = "create_appointment"
                  => /\ appointments' = o.rows
                     /\ UNCHANGED <<messages, memories, reminders, tool_calls,
                                    tool_usage_stats>>
               /\ op = "create_reminder"
                  => /\ reminders' = o.rows
                     /\ UNCHANGED <<messages, memories, appointments, tool_calls,
                                    tool_usage_stats>>
               /\ \A l \in LogInputs :
                      LET d == log_call(pkg, DB, now, l[1], <<>>, NULL, l[2], PyNone, NULL,
                                        NULL)
                      IN  /\ Len(d.tool_calls) =
                                 Len(tool_calls) + (IF has_log_tool_call THEN 1 ELSE 0)
                          /\ <<d.messages, d.memories, d.appointments, d.reminders>> =
                                 <<messages, memories, appointments, reminders>> ]_vars

\* C24's case: create_reminder returned the id of the reminder it stored
\* while the memory store held a memory, which is still there.
C24_Witness ==
    /\ last.op = "create_reminder"
    /\ Len(reminders) = 1
    /\ last.ret = reminders[1].reminder_id
    /\ Len(memories) = 1

\* json.dumps of the result a response carries; the rows of a history are
\* given by their call_id.
ResultText(r) ==
    IF "history" \in DOMAIN r
    THEN "{" \o Quote("history") \o ": "
             \o json_dumps_list([i \in 1..Len(r.history) |-> r.history[i].call_id]) \o "}"
    ELSE json_dumps(r)

\* The record of a request describes it: the tool, the parameters, the
\* client, the outcome and, with the tools given, the result returned on
\* success or the error on failure.
RecordDescribesCall(tools) ==
        (/\ last'.n # last.n
         /\ last'.server = "mcp_server"
         /\ ToolOf(last') \in tools)
        => LET rec == tool_calls'[Len(tool_calls')]
               resp == last'.resp
           IN  /\ Len(tool_calls') = Len(tool_calls) + 1
               /\ rec.tool_name = ToolOf(last')
               /\ rec.parameters = json_dumps_params(ParamsOf(last'))
               /\ rec.client_id = last'.client_id
               /\ rec.status = resp.status
               /\ rec.execution_time_ms = NULL
               /\ resp.status = "success"
                  => rec.result = ResultText(resp.result) /\ rec.error_message = NULL
               /\ resp.status = "error"
                  => rec.error_message = resp.error /\ rec.result = NULL

\* C25: the ToolCallRecord appended for a dispatched call describes that
\* call field by field: tool_name is the requested tool, parameters the
\* request's parameters, client_id the request's client_id, status the
\* outcome; on success result holds the result returned to the caller, on
\* failure error_message holds the error; no value stands in another
\* field's place.
C25_RecordDescribesCall == [][RecordDescribesCall(SupportedTools)]_vars

\* C25 for the branches that log the result they return and return one
\* that is not empty, under a coordinator whose log_tool_call takes the
\* arguments in the order _log_call passes them.
C25_OtherBranchesDescribed ==
    [][memory_system = "with_log_call_order"
       => RecordDescribesCall({"create_memory", "store_memory", "get_system_health",
                               "store_conversation"})]_vars

\* C26: each write-update is one atomic transaction, and the store primitive
\* swallows no failure.  The table changes only at the commit of one call,
\* by that call's whole row, and the call then holds no exception.  A write
\* that returns has its row stored before the return.  A call that met a
\* failure keeps it until it ends, raises it to its caller with no result,
\* and leaves the table as it is: what it wrote and did not commit is rolled
\* back.
C26_AtomicWrite ==
    [][\A w \in Writers :
          LET k == tasks[w]
          IN  /\ (tasks'[w].pc = k.pc /\ tasks'[Other(w)].pc = tasks[Other(w)].pc) =>
                     memories' = memories
              /\ tasks'[w].pc # k.pc =>
                /\ memories' # memories =>
                     /\ k.pc = "commit" /\ k.tx = k.row
                     /\ memories' = memories \o k.row
                     /\ tasks'[w].pc = "exit" /\ tasks'[w].exc = NULL
                /\ (k.pc = "exit" /\ k.exc = NULL /\ k.method = "execute_update") =>
                     /\ k.row[1] \in Rows(memories)
                     /\ last'.exc = NULL /\ last'.ret = k.ret /\ Len(k.ret) = 1
                /\ (k.pc # "idle" /\ k.exc # NULL) =>
                     /\ k.pc = "exit" /\ tasks'[w].pc = "idle"
                     /\ last'.exc = k.exc /\ last'.ret = <<>> /\ last'.w = w
                     /\ memories' = memories
                /\ (k.pc \in {"execute", "commit"} /\ tasks'[w].exc # NULL) =>
                     /\ tasks'[w].pc = "exit"
                     /\ memories' = memories]_vars

\* A write whose commit failed has raised, and the row it had written is not
\* stored.
C26_Witness ==
    /\ last.op = "execute_update"
    /\ last.exc = StorageError
    /\ last.tx # <<>>
    /\ last.tx[1] \notin Rows(memories)
    /\ \A w \in Writers : tasks[w].pc = "idle"

\* C27: every call of the store primitive opens a connection of its own and
\* has closed it when it has returned or raised, so that no connection is
\* open while no call is in progress.
C27_ConnectionsReleased ==
    (\A w \in Writers : tasks[w].pc = "idle") =>
        \A w \in Writers : open_connections(tasks[w]) = 0

\* Each call in progress holds a connection of its own, and a connection
\* left open by an ended call is closed once it is collected.
C27_OwnConnection ==
    [][\A w \in Writers :
          /\ (tasks[w].pc = "idle" /\ tasks'[w].pc # "idle") =>
                open_connections(tasks'[w]) = open_connections(tasks[w]) + 1
          /\ tasks'[w].pc # "idle" => open_connections(tasks'[w]) >= 1
          /\ (tasks[w].pc = "exit" /\ tasks'[w].pc = "idle") =>
                open_connections(tasks'[w]) = open_connections(tasks[w])]_vars

\* Whether the duplicate check of the llama package's create operation op
\* finds a stored row for the arguments a.
DedupHits(op, a) ==
    CASE op = "create_memory" ->
           {r \in Rows(memories) : /\ SqlEq(r.content, a[1])
                                   /\ SqlEq(r.memory_type, a[2])
                                   /\ SqlIs(r.source_conversation_id, a[3])}
      [] op = "create_appointment" ->
           {r \in Rows(appointments) : /\ SqlEq(r.title, a[1])
                                       /\ SqlEq(r.scheduled_datetime, a[2])
                                       /\ SqlIs(r.location, a[3])
                                       /\ SqlIs(r.source_conversation_id, a[4])}
      [] op = "create_reminder" ->
           {r \in Rows(reminders) : /\ SqlEq(r.content, a[1])
                                    /\ SqlEq(r.due_datetime, a[2])
                                    /\ SqlIs(r.source_conversation_id, a[3])}
      [] OTHER -> {}

\* The id column of a row of the table the operation writes.
RowId(op, r) ==
    CASE op = "create_memory" -> r.memory_id
      [] op = "create_appointment" -> r.appointment_id
      [] OTHER -> r.reminder_id

\* C28: a write whose dedup key matches a stored row changes nothing.  When
\* the duplicate check of create_memory, create_appointment or
\* create_reminder (llama package) finds a row, the call returns that row's
\* id and every table is left as it is: the row keeps the importance_level,
\* tags, description, priority_level and timestamps first written, whatever
\* the second call passes and whenever it is made, and no row is added.
C28_HitChangesNothing ==
    [][\A c \in CoordinatorCalls :
          (/\ pkg = "llama"
           /\ last'.n # last.n /\ last'.op = c[1] /\ last'.a = c[2]
           /\ DedupHits(c[1], c[2]) # {}) =>
              /\ UNCHANGED <<messages, memories, appointments, reminders, nextId>>
              /\ last'.exc = NULL
              /\ \E r \in DedupHits(c[1], c[2]) : last'.ret = RowId(c[1], r)]_vars

\* create_memory has hit, at a later time and with another importance_level
\* and other tags, the one row stored, which is as first written.
C28_Witness ==
    /\ pkg = "llama"
    /\ last.op = "create_memory" /\ last.a[4] = 9 /\ last.a[5] = <<"t">>
    /\ Len(memories) = 1
    /\ last.ret = memories[1].memory_id
    /\ memories[1].importance_level = DefaultImportance
    /\ memories[1].tags = tags_column(<<>>)
    /\ memories[1].timestamp_updated = memories[1].timestamp_created
    /\ memories[1].timestamp_created # get_current_timestamp(now)

\* create_appointment has hit with another description, and the stored
\* appointment has none.
C28_AppointmentHit ==
    /\ pkg = "llama"
    /\ last.op = "create_appointment" /\ last.a[5] = "checkup"
    /\ Len(appointments) = 1
    /\ last.ret = appointments[1].appointment_id
    /\ appointments[1].description = NULL
    /\ appointments[1].timestamp_created # get_current_timestamp(now)

\* create_reminder has hit with another priority_level, and the stored
\* reminder has the first.
C28_ReminderHit ==
    /\ pkg = "llama"
    /\ last.op = "create_reminder" /\ last.a[4] = 1
    /\ Len(reminders) = 1
    /\ last.ret = reminders[1].reminder_id
    /\ reminders[1].priority_level = DefaultImportance
    /\ reminders[1].timestamp_created # get_current_timestamp(now)

\* What C29 says of one call of store_message that returned and was not a
\* duplicate hit, in the packages ps.
MissInsertsOneRow(ps) ==
    (/\ pkg \in ps
     /\ last'.n # last.n /\ last'.op = "store_message" /\ last'.exc = NULL
     /\ get(last'.ret, "duplicate", FALSE) # TRUE) =>
        LET ret == last'.ret
            session_id == last'.key[3]
            conversation_id == last'.conversation_id
            used == {r.message_id : r \in Rows(messages)}
                        \cup {r.conversation_id : r \in Rows(messages)}
        IN  /\ Len(messages') = Len(messages) + 1
            /\ SubSeq(messages', 1, Len(messages)) = messages
            /\ messages'[Len(messages')].message_id = ret.message_id
            /\ ret.message_id \notin used \cup {NULL}
            /\ "duplicate" \in DOMAIN ret /\ ret.duplicate = FALSE
            /\ session_id # NULL => ret.session_id = session_id
            /\ conversation_id # NULL => ret.conversation_id = conversation_id
            /\ session_id = NULL =>
                   ret.session_id \notin used \cup {NULL, ret.message_id}
            /\ conversation_id = NULL =>
                   ret.conversation_id \notin used \cup {NULL, ret.message_id}
            /\ messages'[Len(messages')].conversation_id = ret.conversation_id

\* C29: on a miss store_message inserts exactly one row, under a message id
\* no stored message has, and returns duplicate false; a session_id or
\* conversation_id the caller supplied is returned unchanged, and an omitted
\* one is replaced by a fresh id that no stored row uses.
C29_MissInsertsOneRow == [][MissInsertsOneRow(Packages)]_vars

\* The same for the llama package alone.
C29_LlamaMiss == [][MissInsertsOneRow({"llama"})]_vars

\* The llama package's store_message has missed and stored a second message
\* under fresh ids.
C29_LlamaMissReached ==
    /\ pkg = "llama" /\ last.op = "store_message" /\ last.exc = NULL
    /\ Len(messages) = 2 /\ last.ret.duplicate = FALSE
    /\ last.ret.session_id # NULL
    /\ messages[2].conversation_id = last.ret.conversation_id
    /\ messages[1].conversation_id # messages[2].conversation_id

\* Whether the values of the column never rise along the rows.
Descending(rows, column) ==
    \A i, j \in DOMAIN rows : i < j => rows[i][column] >= rows[j][column]

InOperation(k) == k.pc \in {"checked", "logged", "read"}

\* C31: under one cooperative event loop the statements of one store
\* operation run with no suspension point between them.  While a task is
\* between the duplicate check and the insert of a create operation, or
\* between the statements of log_tool_call, the next step is its own and no
\* other task moves; two tasks that call an operation with a duplicate check
\* with the same key never both insert; and two tasks that log the same tool
\* on a day leave a daily row (llm package) that counts both.
C31_NoSuspensionBetweenStatements ==
    [][/\ \A w \in Writers :
             InOperation(tasks[w]) =>
                 /\ tasks'[Other(w)] = tasks[Other(w)]
                 /\ tasks'[w] # tasks[w]
                 /\ ~InOperation(tasks[Other(w)])
       /\ \A w \in Writers :
             (/\ tasks'[w].pc = "done" /\ tasks'[Other(w)].pc = "done"
              /\ tasks'[w].op = tasks'[Other(w)].op /\ tasks'[w].a = tasks'[Other(w)].a) =>
                 /\ (/\ tasks'[w].op # "log_tool_call"
                     /\ has_duplicate_check(pkg, tasks'[w].op, tasks'[w].a)) =>
                        ~(tasks'[w].inserted /\ tasks'[Other(w)].inserted)
                 /\ (pkg = "llm" /\ tasks'[w].op = "log_tool_call") =>
                        /\ Len(tool_calls') = 2
                        /\ Len(tool_usage_stats') = 1
                        /\ tool_usage_stats'[1].call_count = 2]_vars

\* Two tasks have called create_memory with the same key (llama package):
\* one inserted the row, the other's check found it and returned its id.
C31_Witness ==
    /\ pkg = "llama"
    /\ \A w \in Writers : tasks[w].pc = "done" /\ tasks[w].op = "create_memory"
    /\ \E w \in Writers : tasks[w].inserted /\ ~tasks[Other(w)].inserted
    /\ tasks["w1"].ret = tasks["w2"].ret
    /\ Len(memories) = 1

\* Two tasks have logged the same tool (llm package) and the daily row
\* counts both.
C31_LogWitness ==
    /\ pkg = "llm"
    /\ \A w \in Writers : tasks[w].pc = "done" /\ tasks[w].op = "log_tool_call"
    /\ tasks["w1"].a = tasks["w2"].a
    /\ Len(tool_usage_stats) = 1 /\ tool_usage_stats[1].call_count = 2

\* The number of ToolCallRecords of the tool whose timestamp falls on the
\* date.
RecordsOn(tool_name, date) ==
    Cardinality({i \in DOMAIN tool_calls :
                    /\ tool_calls[i].tool_name = tool_name
                    /\ tool_calls[i].timestamp[1] = date})

\* The call_count of the daily row of (tool_name, date), 0 when there is
\* none.
CountOn(tool_name, date) ==
    LET rows == stats_existing(tool_usage_stats, tool_name, date)
    IN  IF rows = <<>> THEN 0 ELSE rows[1].call_count

\* C32: log_tool_call is all-or-nothing with respect to the aggregate.
\* After any sequence of log_tool_call calls that follow one another, the
\* call_count of every (tool_name, date) equals the number of
\* ToolCallRecords of that tool whose timestamp falls on that date, also
\* when the day changes between the record insert and the stat update.
C32_CountMatchesRecords ==
    (\A w \in Writers : tasks[w].pc \in {"idle", "done"}) =>
        \A tool_name \in {a[1] : a \in LogInputs}, date \in {today(t) : t \in Instants} :
            CountOn(tool_name, date) = RecordsOn(tool_name, date)

\* The same for the llm package while the day does not change.
C32_LlmSameDay ==
    (/\ pkg = "llm" /\ today(now) = today(1440)
     /\ \A w \in Writers : tasks[w].pc \in {"idle", "done"}) =>
        \A tool_name \in {a[1] : a \in LogInputs} :
            CountOn(tool_name, today(now)) = RecordsOn(tool_name, today(now))

\* In the llm package a call has ended whose record is of one day and
\* whose count is of the next.
C32_DayChangeReached ==
    /\ pkg = "llm"
    /\ \A w \in Writers : tasks[w].pc \in {"idle", "done"}
    /\ \E tool_name \in {a[1] : a \in LogInputs} :
           /\ RecordsOn(tool_name, 1) = 1 /\ CountOn(tool_name, 1) = 0
           /\ RecordsOn(tool_name, 2) = 0 /\ CountOn(tool_name, 2) = 1

\* In the llama package two calls for one tool on one day have ended, and
\* the daily row counts one.
C32_LlamaSecondCallReached ==
    /\ pkg = "llama"
    /\ \A w \in Writers : tasks[w].pc = "done"
    /\ \E tool_name \in {a[1] : a \in LogInputs} :
           RecordsOn(tool_name, 1) = 2 /\ CountOn(tool_name, 1) = 1

\* C33: when a store_conversation request carries a user message and an
\* assistant response and both are stored, the two stored messages have the
\* same conversation_id, and it is the conversation_id returned in the
\* response.
C33_OneConversation ==
    [][(/\ last'.n # last.n
        /\ last'.op = "handle_mcp_request"
        /\ last'.server = "mcp_server"
        /\ ToolOf(last') = "store_conversation"
        /\ Truthy(get(ParamsOf(last'), "assistant_response", NULL))
        /\ last'.resp.status = "success"
        /\ Len(messages') = Len(messages) + 2) =>
           LET user == messages'[Len(messages) + 1]
               assistant == messages'[Len(messages) + 2]
           IN  /\ user.role = "user" /\ assistant.role = "assistant"
               /\ user.conversation_id = assistant.conversation_id
               /\ last'.resp.result =
                      PyDict(<<<<"conversation_id", json_opt(user.conversation_id)>>>>)]_vars

\* In the llama package both messages of a request are stored, the response
\* carries the user message's conversation_id, and the assistant message
\* has another.
C33_LlamaTwoConversations ==
    /\ pkg = "llama"
    /\ last.op = "handle_mcp_request" /\ last.server = "mcp_server"
    /\ ToolOf(last) = "store_conversation" /\ last.resp.status = "success"
    /\ Len(messages) = 2
    /\ messages[1].role = "user" /\ messages[2].role = "assistant"
    /\ messages[1].conversation_id # messages[2].conversation_id
    /\ last.resp.result =
           PyDict(<<<<"conversation_id", json_opt(messages[1].conversation_id)>>>>)

\* C33 in the llm package alone, where both messages are stored with no
\* conversation_id and none is returned.
C33_LlmBothNull ==
    [][(/\ pkg = "llm"
        /\ last'.n # last.n
        /\ last'.op = "handle_mcp_request"
        /\ ToolOf(last') = "store_conversation"
        /\ last'.resp.status = "success"
        /\ Len(messages') = Len(messages) + 2) =>
           /\ messages'[Len(messages) + 1].conversation_id = NULL
           /\ messages'[Len(messages) + 2].conversation_id = NULL
           /\ last'.resp.result = PyDict(<<<<"conversation_id", json_opt(NULL)>>>>)]_vars

\* A step that handles a get_tool_call_history request and answers success.
HistoryRequestStep ==
    /\ last'.n # last.n
    /\ last'.op = "handle_mcp_request"
    /\ ToolOf(last') = "get_tool_call_history"
    /\ last'.resp.status = "success"

\* Whether the request before was a get_tool_call_history request answered
\* success, and this one's limit leaves room for every record stored.
FollowsHistoryRequest ==
    /\ last.op = "handle_mcp_request"
    /\ ToolOf(last) = "get_tool_call_history"
    /\ last.resp.status = "success"
    /\ get(ParamsOf(last'), "limit", DefaultHistoryLimit) >= Len(tool_calls)

\* The first half of C34: the request's own telemetry record is appended
\* after the history was read, so the history holds stored records only and
\* not that one.
HistoryOmitsOwnRecord ==
    HistoryRequestStep =>
        /\ Len(tool_calls') = Len(tool_calls) + 1
        /\ tool_calls'[Len(tool_calls')].tool_name = "get_tool_call_history"
        /\ Rows(last'.resp.result.history) \subseteq Rows(tool_calls)
        /\ tool_calls'[Len(tool_calls')] \notin Rows(last'.resp.result.history)

\* The second half of C34: the record of a get_tool_call_history request is
\* in the history the next such request returns.
NextHistoryHasRecord ==
    (HistoryRequestStep /\ FollowsHistoryRequest) =>
        /\ tool_calls[Len(tool_calls)].tool_name = "get_tool_call_history"
        /\ tool_calls[Len(tool_calls)] \in Rows(last'.resp.result.history)

\* C34: the history returned by a get_tool_call_history request never
\* contains the record of that request itself, which is appended after the
\* read, and that record appears in the history of the next
\* get_tool_call_history request.
C34_OwnRecordInNextHistory == [][HistoryOmitsOwnRecord /\ NextHistoryHasRecord]_vars

\* The first half under a coordinator whose log_tool_call takes the
\* arguments in the order _log_call passes them.
C34_HistoryOmitsOwnRecord ==
    [][memory_system = "with_log_call_order" => HistoryOmitsOwnRecord]_vars

\* A second get_tool_call_history request has been answered with an empty
\* history while the record of the first is stored.
C34_EmptyHistory ==
    /\ last.op = "handle_mcp_request" /\ ToolOf(last) = "get_tool_call_history"
    /\ last.resp.status = "success" /\ last.resp.result.history = <<>>
    /\ Len(tool_calls) = 2
    /\ tool_calls[1].tool_name = "get_tool_call_history"

====
